---- MODULE Spec2Model ----
(***************************************************************************)
(* Model of the geocrime-ai risk-and-clustering core.                      *)
(*                                                                         *)
(*   SpecRisk     RiskEngine.calculate_score (src/features/risk_engine.py) *)
(*   SpecCluster  HotspotClusteringModel construction, fit_predict, save   *)
(*                and load (src/models/clustering_model.py)                *)
(*                                                                         *)
(* Scores are fixed-point: the running score of calculate_score is held in *)
(* thousandths of a point (10.0 is 10000), the returned risk_score, which  *)
(* the code rounds to two decimals, in hundredths (10.0 is 1000).          *)
(***************************************************************************)
EXTENDS Integers, Sequences, FiniteSets, TLC

VARIABLES
    hotspot_model,  \* RiskEngine.hotspot_model
    np_random,      \* state of the process-wide numpy generator
    last,           \* the most recent calculate_score call (arguments, result)
    prev,           \* the calculate_score call before it
    instances,      \* HotspotClusteringModel objects: id -> fields
    fs,             \* model files on disk: path -> stored metadata
    dirs,           \* directories on disk
    saved,          \* per path, the saver's fields when save() last ran
    outcome,        \* what the last clustering operation did
    seed,           \* where KMeans' random_state=42 initialisation leads
    fits,           \* the latest fit_predict calls kept for comparison
    readers,        \* per object, how far a load() in progress has come
    detector,       \* the AnomalyDetector object
    detector_file,  \* the file at the detector's model_path
    detections,     \* the latest AnomalyDetector calls kept for comparison
    classifier,     \* CrimeRiskClassifier objects: id -> fields
    classifier_fs,  \* classifier files on disk: filepath -> stored model
    classified,     \* the latest classifier calls kept for comparison
    bootstrap,      \* where the forest's random_state=42 bootstrap draws lead
    clustered_data, \* the API module's frame of clustered crime records
    response        \* what the last API handler call returned

riskVars == <<hotspot_model, np_random, last, prev>>
clusterVars == <<instances, fs, dirs, saved, outcome, seed, fits, readers>>
detectorVars == <<detector, detector_file, detections>>
classifierVars == <<classifier, classifier_fs, classified, bootstrap>>
apiVars == <<clustered_data, response>>
vars ==
    <<hotspot_model, np_random, last, prev, instances, fs, dirs, saved, outcome,
      seed, fits, readers, detector, detector_file, detections, classifier,
      classifier_fs, classified, bootstrap, clustered_data, response>>

Min(a, b) == IF a <= b THEN a ELSE b

\* The arrays of up to n rows over the set S of rows.
Arrays(S, n) == UNION {[1..k -> S] : k \in 0..n}

(***************************************************************************)
(* RiskEngine                                                              *)
(***************************************************************************)

\* Largest latitude / longitude index of the query grid.
MaxCoord == 1

Coords == 0..MaxCoord

Hours == 0..23

\* A fitted hotspot model is represented by its one centroid.
\* hotspot_model is None (is_none) or a fitted model.
HotspotModels ==
    {[is_none |-> TRUE, centroid |-> [lat |-> 0, lon |-> 0]],
     [is_none |-> FALSE, centroid |-> [lat |-> 0, lon |-> 0]]}

\* Values np.random.uniform(0, 10) may return, in thousandths, in the order
\* the generator yields them from state 0; the generator state is the
\* position in this stream.
JitterStream == <<0, 4, 5000, 5004, 2500, 9996, 7506, 9999>>

\* Mutation of Uniform: the draw is from [0, 20).
UniformWide(s) == 2 * JitterStream[s + 1]

\* np.random.uniform(0, 10) at generator state s: the value drawn.
Uniform(s) == JitterStream[s + 1]

\* the generator state after one draw
Advance(s) == (s + 1) % Len(JitterStream)

\* score = 10.0
BaseScore == 10000

\* the cap of min(..., 100)
ScoreCap == 100000

LateNightFactor == "High risk: Late night hours"
EveningFactor == "Moderate risk: Evening hours"

\* Mutation of TemporalRule: the late-night test ends at hour < 4.
TemporalRuleOffByOne(hour) ==
    IF 22 <= hour \/ hour < 4 THEN "late"
    ELSE IF 18 <= hour /\ hour < 22 THEN "evening"
    ELSE "none"

\* The temporal rule that fires for an hour: "late", "evening" or "none".
TemporalRule(hour) ==
    IF 22 <= hour \/ hour <= 4 THEN "late"
    ELSE IF 18 <= hour /\ hour < 22 THEN "evening"
    ELSE "none"

\* Mutation of TemporalAdd: the adjustments are subtracted.
TemporalAddNegated(hour) ==
    CASE TemporalRule(hour) = "late" -> 0 - 25000
      [] TemporalRule(hour) = "evening" -> 0 - 10000
      [] OTHER -> 0

\* What the temporal rule adds to the score.
TemporalAdd(hour) ==
    CASE TemporalRule(hour) = "late" -> 25000
      [] TemporalRule(hour) = "evening" -> 10000
      [] OTHER -> 0

\* What the temporal rule appends to factors.
TemporalFactors(hour) ==
    CASE TemporalRule(hour) = "late" -> <<LateNightFactor>>
      [] TemporalRule(hour) = "evening" -> <<EveningFactor>>
      [] OTHER -> <<>>

\* Mutation of HotspotAdd: a held model adds 50 at its centroid.
HotspotAddAtCentroid(model, lat, lon) ==
    IF ~model.is_none /\ model.centroid = [lat |-> lat, lon |-> lon]
    THEN 50000 ELSE 0

\* The hotspot proximity step: its code is commented out, the score is left
\* as it is whatever hotspot_model holds.
HotspotAdd(model, lat, lon) == 0

\* score = min(score + np.random.uniform(0, 10), 100)
Capped(score, jitter) == Min(score + jitter, ScoreCap)

\* Mutation of LevelOf: the thresholds are inclusive.
LevelOfInclusive(score) ==
    IF score >= 75000 THEN "High"
    ELSE IF score >= 40000 THEN "Moderate"
    ELSE "Low"

\* level from the (unrounded) score
LevelOf(score) ==
    IF score > 75000 THEN "High"
    ELSE IF score > 40000 THEN "Moderate"
    ELSE "Low"

\* round(score, 2): thousandths to hundredths, ties to even
Round2(x) ==
    LET q == x \div 10
        r == x % 10
    IN  IF r < 5 THEN q
        ELSE IF r > 5 THEN q + 1
        ELSE IF q % 2 = 0 THEN q ELSE q + 1

\* The record of one calculate_score call: its arguments, the perturbation
\* it drew, the score before rounding, and the returned dictionary's
\* risk_score, level, contributing_factors and timestamp (the hour).
ScoreCall(model, lat, lon, hour, rng) ==
    LET jitter == Uniform(rng)
        score == Capped(BaseScore + TemporalAdd(hour)
                          + HotspotAdd(model, lat, lon), jitter)
    IN  [called |-> TRUE, lat |-> lat, lon |-> lon, hour |-> hour, rng |-> rng,
         jitter |-> jitter, score |-> score,
         risk_score |-> Round2(score),
         level |-> LevelOf(score),
         contributing_factors |-> TemporalFactors(hour)]

\* last / prev before any call
NoCall ==
    [called |-> FALSE, lat |-> 0, lon |-> 0, hour |-> 0, rng |-> 0,
     jitter |-> 0, score |-> 0, risk_score |-> 0, level |-> "Low",
     contributing_factors |-> <<>>]

\* The timestamp arguments over a set of hours: <<>> is None, <<h>> a
\* datetime of hour h.
Timestamps(hours) == {<<>>} \cup {<<h>> : h \in hours}

\* calculate_score(lat, lon, timestamp) with the hours drawn from `hours`:
\* timestamp None takes the clock's hour. `keep` says whether the call
\* before this one is remembered in prev.
CalculateScoreWith(hours, keep) ==
    \E lat \in Coords, lon \in Coords, ts \in Timestamps(hours) :
        \E now \in (IF ts = <<>> THEN hours ELSE {ts[1]}) :
            LET hour == IF ts = <<>> THEN now ELSE ts[1]
            IN  /\ last' = ScoreCall(hotspot_model, lat, lon, hour, np_random)
                /\ prev' = IF keep THEN last ELSE prev
                /\ np_random' = Advance(np_random)
                /\ UNCHANGED <<hotspot_model>>
                /\ UNCHANGED <<clusterVars, detectorVars, classifierVars, apiVars>>

\* One call, any hour of the day.
CalculateScore == CalculateScoreWith(Hours, FALSE)

\* Hours the two-call history is explored over: one of each temporal rule
\* and the hours the properties name.
SampleHours == {2, 10, 19, 23}

\* One call of a sequence of calls, the call before it remembered.
CalculateScoreAgain == CalculateScoreWith(SampleHours, TRUE)

\* RiskEngine(hotspot_model) constructed, the generator in any state, no
\* call made yet.
RiskInit ==
    /\ hotspot_model \in HotspotModels
    /\ np_random \in 0..(Len(JitterStream) - 1)
    /\ last = NoCall
    /\ prev = NoCall

(***************************************************************************)
(* HotspotClusteringModel                                                  *)
(*                                                                         *)
(* Coordinates and eps are in units of 0.0001 degree (eps 0.01 is 100),    *)
(* times and eps_temporal in hours.                                        *)
(***************************************************************************)

\* The objects the callers hold.
InstanceIds == {"m1", "m2"}

\* model_path arguments.
Paths == {"models/hotspot_model.joblib"}

\* os.path.dirname(model_path)
Dirname(path) == "models"

\* algorithm arguments: the supported ones, one in another case, one unknown.
AlgorithmArgs == {"dbscan", "kmeans", "st-dbscan", "KMeans", "hdbscan"}

\* str.lower() on the algorithm arguments
Lower(a) == IF a = "KMeans" THEN "kmeans" ELSE a

\* params arguments; None and {} both give {} (params or {}).
EmptyParams == <<>>
DbscanParams == [eps |-> 200, min_samples |-> 2]
KmeansParams == [n_clusters |-> 2]
StDbscanParams == [eps_spatial |-> 200, eps_temporal |-> 2, min_samples |-> 2]
ParamArgs == {EmptyParams, DbscanParams, KmeansParams, StDbscanParams}

\* The (algorithm, params) pairs the constructor is called with: each
\* algorithm with its own keys, with none, st-dbscan with some of its keys
\* missing, an algorithm in another case and an unknown one.
ConstructArgs ==
    {<<"dbscan", DbscanParams>>, <<"dbscan", EmptyParams>>,
     <<"kmeans", KmeansParams>>, <<"KMeans", EmptyParams>>,
     <<"st-dbscan", StDbscanParams>>, <<"st-dbscan", EmptyParams>>,
     <<"st-dbscan", DbscanParams>>, <<"hdbscan", DbscanParams>>}

\* dict.get(key, default)
DictGet(d, key, default) == IF key \in DOMAIN d THEN d[key] ELSE default

\* Mutation of DefaultOf: min_samples defaults to 3.
DefaultOfSmallMinSamples(key) ==
    CASE key = "eps" -> 100
      [] key = "min_samples" -> 3
      [] key = "eps_spatial" -> 100
      [] key = "eps_temporal" -> 1
      [] key = "n_clusters" -> 5

\* The defaults of the constructor's params.get calls.
DefaultOf(key) ==
    CASE key = "eps" -> 100
      [] key = "min_samples" -> 5
      [] key = "eps_spatial" -> 100
      [] key = "eps_temporal" -> 1
      [] key = "n_clusters" -> 5

\* self.params.get(key, default)
Param(params, key) == DictGet(params, key, DefaultOf(key))

\* The sklearn estimators held in self.model, unfitted.
DBSCAN(eps, min_samples) ==
    [kind |-> "DBSCAN", eps |-> eps, min_samples |-> min_samples,
     n_clusters |-> 0, fitted |-> FALSE]

\* Mutation of KMeans: one cluster more than asked for.
KMeansOneMore(n_clusters) ==
    [kind |-> "KMeans", eps |-> 0, min_samples |-> 0,
     n_clusters |-> n_clusters + 1, fitted |-> FALSE]

\* KMeans(n_clusters, random_state=42, n_init=10)
KMeans(n_clusters) ==
    [kind |-> "KMeans", eps |-> 0, min_samples |-> 0,
     n_clusters |-> n_clusters, fitted |-> FALSE]

NoModel ==
    [kind |-> "None", eps |-> 0, min_samples |-> 0, n_clusters |-> 0,
     fitted |-> FALSE]

\* A name bound to no object yet.
NoInstance ==
    [exists |-> FALSE, algorithm |-> "", params |-> EmptyParams,
     model |-> NoModel, model_path |-> "", has_st |-> FALSE,
     eps_spatial |-> 0, eps_temporal |-> 0]

SupportedAlgorithms == {"dbscan", "st-dbscan", "kmeans"}

\* The object __init__ builds for a supported (lower-cased) algorithm.
\* eps_spatial and eps_temporal are attributes only of an object constructed
\* as st-dbscan (has_st).
Constructed(algorithm, params, path) ==
    LET base == [exists |-> TRUE, algorithm |-> algorithm, params |-> params,
                 model |-> NoModel, model_path |-> path, has_st |-> FALSE,
                 eps_spatial |-> 0, eps_temporal |-> 0]
    IN  CASE algorithm = "dbscan" ->
               [base EXCEPT !.model = DBSCAN(Param(params, "eps"),
                                             Param(params, "min_samples"))]
          [] algorithm = "st-dbscan" ->
               [base EXCEPT !.has_st = TRUE,
                            !.eps_spatial = Param(params, "eps_spatial"),
                            !.eps_temporal = Param(params, "eps_temporal"),
                            !.model = DBSCAN(Param(params, "eps_spatial"),
                                             Param(params, "min_samples"))]
          [] algorithm = "kmeans" ->
               [base EXCEPT !.model = KMeans(Param(params, "n_clusters"))]

\* The last operation as its caller sees it: the operation, the object, the
\* error raised ("" for none), the algorithm argument of a constructor call,
\* whether load() found the file, the labels fit_predict returned.
Outcome(op, inst, error) ==
    [op |-> op, inst |-> inst, error |-> error, algorithm |-> "",
     found |-> FALSE, labels |-> <<>>]

\* HotspotClusteringModel(algorithm, params, model_path), bound to name i.
\* The directory is made before the algorithm is looked at; an unsupported
\* algorithm raises ValueError and the name keeps what it was bound to.
Construct(i, algorithm, params, path) ==
    LET alg == Lower(algorithm)
        res == [Outcome("init", i, "") EXCEPT !.algorithm = algorithm]
    IN  /\ dirs' = dirs \cup {Dirname(path)}
        /\ IF alg \in SupportedAlgorithms
           THEN /\ instances' = [instances EXCEPT
                                    ![i] = Constructed(alg, params, path)]
                /\ outcome' = res
           ELSE /\ instances' = instances
                /\ outcome' = [res EXCEPT !.error = "ValueError"]
        /\ UNCHANGED <<fs, saved, seed, fits, readers>>
        /\ UNCHANGED <<riskVars, detectorVars, classifierVars, apiVars>>

\* The input arrays of fit_predict: the column count and the rows. The
\* first two columns are offsets from (12.9, 77.5), the third a density
\* weight or a time.
EmptyData2 == [cols |-> 2, rows |-> <<>>]
EmptyData3 == [cols |-> 3, rows |-> <<>>]
Points2 == [cols |-> 2, rows |-> << <<700, 900>>, <<705, 905>>, <<0, 0>> >>]
Points3 ==
    [cols |-> 3, rows |-> << <<700, 900, 1>>, <<705, 905, 1>>, <<0, 0, 2>> >>]
Datasets == {EmptyData2, EmptyData3, Points2, Points3}

RECURSIVE SumSq(_, _, _)
\* the squared Euclidean distance of rows p and q over columns k..Len(p)
SumSq(p, q, k) ==
    IF k > Len(p) THEN 0
    ELSE (p[k] - q[k]) * (p[k] - q[k]) + SumSq(p, q, k + 1)

\* DBSCAN's neighbourhood test: distance <= eps
Near(rows, i, j, eps) == SumSq(rows[i], rows[j], 1) <= eps * eps

\* Mutation of CoreSamples: the row itself is not counted.
CoreSamplesExcludingSelf(rows, eps, min_samples) ==
    {i \in 1..Len(rows) :
        Cardinality({j \in 1..Len(rows) : Near(rows, i, j, eps)}) > min_samples}

\* the core samples: at least min_samples rows, itself included, within eps
CoreSamples(rows, eps, min_samples) ==
    {i \in 1..Len(rows) :
        Cardinality({j \in 1..Len(rows) : Near(rows, i, j, eps)}) >= min_samples}

RECURSIVE Expand(_, _, _, _)
\* the core samples reachable from the set S through core samples
Expand(S, core, rows, eps) ==
    LET T == S \cup {j \in core : \E i \in S : Near(rows, i, j, eps)}
    IN  IF T = S THEN S ELSE Expand(T, core, rows, eps)

SetMin(S) == CHOOSE x \in S : \A y \in S : x <= y

RECURSIVE Clusters(_, _, _, _, _)
\* the clusters' core samples, in the order DBSCAN numbers them: by each
\* cluster's first core sample
Clusters(rest, acc, core, rows, eps) ==
    IF rest = {} THEN acc
    ELSE LET c == Expand({SetMin(rest)}, core, rows, eps)
         IN  Clusters(rest \ c, Append(acc, c), core, rows, eps)

\* DBSCAN(eps, min_samples).fit_predict(rows): a core sample gets its
\* cluster's number, a non-core row within eps of a core sample the number
\* of the first cluster that reaches it, any other row -1.
DBSCANLabels(rows, eps, min_samples) ==
    LET core == CoreSamples(rows, eps, min_samples)
        cl == Clusters(core, <<>>, core, rows, eps)
        reach(i) == {k \in 1..Len(cl) : \E c \in cl[k] : Near(rows, i, c, eps)}
    IN  [i \in 1..Len(rows) |->
            IF reach(i) = {} THEN 0 - 1 ELSE SetMin(reach(i)) - 1]

RECURSIVE WeightedSum(_, _, _, _, _, _)
\* the sum over rows i..Len(rows) labelled k of weight * column d
\* (d = 0: of the weights)
WeightedSum(rows, weights, labels, k, d, i) ==
    IF i > Len(rows) THEN 0
    ELSE (IF labels[i] = k
          THEN weights[i] * (IF d = 0 THEN 1 ELSE rows[i][d])
          ELSE 0)
         + WeightedSum(rows, weights, labels, k, d, i + 1)

\* W * W * (squared distance of row p from the centroid S / W)
ScaledDist2(p, S, W) ==
    (W * p[1] - S[1]) * (W * p[1] - S[1]) + (W * p[2] - S[2]) * (W * p[2] - S[2])

\* A labelling KMeans can stop at: every cluster is non-empty and every row
\* is labelled with a centroid nearest to it, the centroids being the
\* weighted means of their rows.
LloydStable(rows, weights, labels, n_clusters) ==
    LET W == [k \in 0..(n_clusters - 1) |->
                WeightedSum(rows, weights, labels, k, 0, 1)]
        S == [k \in 0..(n_clusters - 1) |->
                <<WeightedSum(rows, weights, labels, k, 1, 1),
                  WeightedSum(rows, weights, labels, k, 2, 1)>>]
    IN  /\ \A k \in 0..(n_clusters - 1) : W[k] > 0
        /\ \A i \in 1..Len(rows), b \in 0..(n_clusters - 1) :
              ScaledDist2(rows[i], S[labels[i]], W[labels[i]]) * W[b] * W[b]
                  <= ScaledDist2(rows[i], S[b], W[b]) * W[labels[i]] * W[labels[i]]

\* KMeans(n_clusters, random_state=42, n_init=10).fit_predict(rows,
\* sample_weight=weights): one label in 0..n_clusters-1 per row. Which of the
\* stable labellings the seeded initialisation leads to is decided by the
\* draw (Seeded); when there is none (fewer distinct rows of positive weight
\* than clusters) any labelling is a candidate.
KMeansLabelings(rows, weights, n_clusters) ==
    LET all == [1..Len(rows) -> 0..(n_clusters - 1)]
        stable == {l \in all : LloydStable(rows, weights, l, n_clusters)}
    IN  IF stable = {} THEN all ELSE stable

\* The draws of the generator KMeans seeds with random_state=42: the same
\* at every fit, which of them is not computed here.
Seeds == 0..1

RECURSIVE LabelCode(_, _)
\* a labelling read as a number, to order labellings
LabelCode(l, i) ==
    IF i > Len(l) THEN 0 ELSE (l[i] + 1) + 8 * LabelCode(l, i + 1)

\* Mutation of Seeded: the generator is not seeded anew at a fit, the draw
\* moves on with every call.
SeededOnce(S, s) ==
    CHOOSE l \in S :
        Cardinality({m \in S : LabelCode(m, 1) < LabelCode(l, 1)})
            = (s + Len(fits)) % Cardinality(S)

\* The labelling of the set S that the draw s leads to.
Seeded(S, s) ==
    CHOOSE l \in S :
        Cardinality({m \in S : LabelCode(m, 1) < LabelCode(l, 1)})
            = s % Cardinality(S)

\* sample_weight=None
UnitWeights(rows) == [i \in 1..Len(rows) |-> 1]

\* data[:, 2]
ThirdColumn(rows) == [i \in 1..Len(rows) |-> rows[i][3]]

\* self.model.fit_predict(rows) of the sklearn estimator; `scale` is the
\* factor the rows were multiplied by to keep them integral. The result is
\* an error, or the labellings the call may return.
EstimatorFit(model, rows, weights, scale) ==
    CASE model.kind = "None" ->
           [error |-> "AttributeError", labellings |-> {}]
      [] Len(rows) = 0 ->
           [error |-> "ValueError", labellings |-> {}]
      [] model.kind = "DBSCAN" ->
           [error |-> "",
            labellings |-> {DBSCANLabels(rows, model.eps * scale,
                                         model.min_samples)}]
      [] model.kind = "KMeans" ->
           IF Len(rows) < model.n_clusters
           THEN [error |-> "ValueError", labellings |-> {}]
           ELSE [error |-> "",
                 labellings |-> KMeansLabelings(rows, weights, model.n_clusters)]

\* data[:, :2]
FirstTwo(rows) == [i \in 1..Len(rows) |-> <<rows[i][1], rows[i][2]>>]

\* The float64 rounding of time * scale_factor for whole hours 0..9 and
\* eps_spatial 0.01 or 0.02: the pairs <<eps_temporal, time>> whose product
\* lies, by less than the grid's resolution, on the other side of its exact
\* value than the product for time - eps_temporal. Two rows that are exactly
\* eps_temporal apart in time are therefore more than eps_spatial apart in
\* scaled time exactly when one of them is listed and the other is not
\* (3 * 0.01 and 4 * 0.01 differ by 0.010000000000000002).
RoundedApart ==
    {<<1, 4>>, <<1, 7>>, <<1, 8>>, <<1, 9>>, <<2, 5>>, <<2, 8>>, <<3, 8>>, <<3, 9>>}

\* the rounding of one row's product, as a fourth coordinate that adds less
\* than one unit of the grid to a distance
Rounding(time, eps_temporal) ==
    IF <<eps_temporal, time>> \in RoundedApart THEN 1 ELSE 0

\* np.column_stack((coords, time * eps_spatial / eps_temporal)), every
\* column multiplied by eps_temporal, with the rounding of the product
StData(rows, eps_spatial, eps_temporal) ==
    [i \in 1..Len(rows) |->
        <<rows[i][1] * eps_temporal, rows[i][2] * eps_temporal,
          rows[i][3] * eps_spatial, Rounding(rows[i][3], eps_temporal)>>]

\* What fit_predict(data) of an object does: the branch on self.algorithm,
\* then the estimator's fit_predict.
FitResult(inst, data) ==
    IF inst.algorithm = "st-dbscan"
    THEN CASE data.cols < 3 ->
                [error |-> "IndexError", labellings |-> {}]
           [] ~inst.has_st ->
                [error |-> "AttributeError", labellings |-> {}]
           [] inst.eps_temporal = 0 ->
                [error |-> "ZeroDivisionError", labellings |-> {}]
           [] OTHER ->
                EstimatorFit(inst.model,
                             StData(data.rows, inst.eps_spatial,
                                    inst.eps_temporal),
                             UnitWeights(data.rows), inst.eps_temporal)
    ELSE IF inst.algorithm = "kmeans" /\ data.cols = 3
    THEN EstimatorFit(inst.model, FirstTwo(data.rows),
                      ThirdColumn(data.rows), 1)
    ELSE EstimatorFit(inst.model, data.rows, UnitWeights(data.rows), 1)

\* The fields of an object that fit_predict reads.
FitKey(inst) ==
    [inst EXCEPT !.params = EmptyParams, !.model_path = "",
                 !.model.fitted = FALSE]

\* Mutation of Restored: the params of the file are not taken over.
RestoredWithoutParams(inst, data) ==
    [inst EXCEPT !.algorithm = DictGet(data, "algorithm", "dbscan"),
                 !.model = DictGet(data, "model", NoModel)]

\* The object after load() has read the dictionary `data`.
Restored(inst, data) ==
    [inst EXCEPT !.algorithm = DictGet(data, "algorithm", "dbscan"),
                 !.params = DictGet(data, "params", EmptyParams),
                 !.model = DictGet(data, "model", NoModel)]

\* Mutation of Metadata: the algorithm written is always "dbscan".
MetadataDefaultAlgorithm(inst) ==
    [algorithm |-> "dbscan", params |-> inst.params, model |-> inst.model]

\* the metadata dictionary save() dumps
Metadata(inst) ==
    [algorithm |-> inst.algorithm, params |-> inst.params, model |-> inst.model]

\* The objects the constructor can build from ConstructArgs.
ConstructedObjects ==
    {Constructed(Lower(a[1]), a[2], path) :
        a \in {x \in ConstructArgs : Lower(x[1]) \in SupportedAlgorithms},
        path \in Paths}

\* FitResult tabulated over the objects fit_predict can be called on (as
\* constructed, or having loaded what another saved) and the input arrays.
FitTable ==
    LET keys == {FitKey(o) : o \in ConstructedObjects}
                \cup {FitKey(Restored(o, Metadata(src))) :
                         o \in ConstructedObjects, src \in ConstructedObjects}
    IN  [k \in keys |->
            [d \in Datasets |->
                LET res == FitResult(k, d)
                IN  [error |-> res.error,
                     labels |-> [s \in Seeds |->
                                    IF res.error # "" THEN <<>>
                                    ELSE Seeded(res.labellings, s)]]]]

\* Mutation of ArrayAfter: st-dbscan scales the time column of the caller's
\* array in place.
ArrayAfterInPlace(inst, data) ==
    IF inst.algorithm = "st-dbscan" /\ data.cols = 3 /\ inst.has_st
    THEN [data EXCEPT !.rows =
            [r \in 1..Len(data.rows) |->
                <<data.rows[r][1], data.rows[r][2],
                  data.rows[r][3] * inst.eps_spatial>>]]
    ELSE data

\* The caller's array after fit_predict(data): st-dbscan works on copies of
\* its columns, kmeans and dbscan only read the array.
ArrayAfter(inst, data) == data

\* One fit_predict call as its caller can observe it: the object and its
\* configuration, the array before and after, the error or the labels.
FitCall(i, inst, data, error, labels) ==
    [inst |-> i, algorithm |-> inst.algorithm, params |-> inst.params,
     data |-> data, after |-> ArrayAfter(inst, data), error |-> error,
     labels |-> labels]

\* The s latest calls: call, then those of calls.
Latest(call, calls, s) ==
    SubSeq(<<call>> \o calls, 1, Min(s, Len(calls) + 1))

\* fit_predict(data) on object i, where the estimator's fit gives `error` or
\* `labels`: returns the labels or raises; a successful fit leaves the
\* estimator fitted. Of this call and the calls `earlier`, the `keep` latest
\* are remembered in fits.
FitPredictWith(i, data, error, labels, earlier, keep) ==
    LET inst == instances[i]
        out == Outcome("fit", i, error)
    IN  /\ inst.exists
        /\ IF error # ""
           THEN /\ outcome' = out
                /\ instances' = instances
           ELSE /\ outcome' = [out EXCEPT !.labels = labels]
                /\ instances' = [instances EXCEPT ![i].model.fitted = TRUE]
        /\ fits' = Latest(FitCall(i, inst, data, error, labels), earlier, keep)
        /\ UNCHANGED <<fs, dirs, saved, seed, readers>>
        /\ UNCHANGED <<riskVars, detectorVars, classifierVars, apiVars>>

\* fit_predict(data) on object i, no call remembered.
FitPredict(i, data) ==
    LET res == FitTable[FitKey(instances[i])][data]
    IN  /\ instances[i].exists
        /\ FitPredictWith(i, data, res.error, res.labels[seed], fits, 0)

\* the file system with `content` written at path
Written(files, path, content) ==
    [q \in DOMAIN files \cup {path} |-> IF q = path THEN content ELSE files[q]]

\* save() on object i: joblib.dump(metadata, self.model_path)
Save(i) ==
    LET inst == instances[i]
    IN  /\ inst.exists
        /\ fs' = Written(fs, inst.model_path, Metadata(inst))
        /\ saved' = Written(saved, inst.model_path,
                            [algorithm |-> inst.algorithm,
                             params |-> inst.params, model |-> inst.model,
                             by |-> i])
        /\ outcome' = Outcome("save", i, "")
        /\ UNCHANGED <<instances, dirs, seed, fits, readers>>
        /\ UNCHANGED <<riskVars, detectorVars, classifierVars, apiVars>>

\* Mutation of NotRestored: the object falls back to the default algorithm
\* with no params.
NotRestoredDefault(inst) ==
    [Constructed("dbscan", EmptyParams, inst.model_path) EXCEPT
        !.has_st = inst.has_st, !.eps_spatial = inst.eps_spatial,
        !.eps_temporal = inst.eps_temporal]

\* The object after load() found no file: only a warning is logged.
NotRestored(inst) == inst

\* load() on object i: takes algorithm, params and model from the file when
\* it exists, warns and changes nothing otherwise.
Load(i) ==
    LET inst == instances[i]
    IN  /\ inst.exists
        /\ IF inst.model_path \in DOMAIN fs
           THEN /\ instances' =
                       [instances EXCEPT ![i] = Restored(inst, fs[inst.model_path])]
                /\ outcome' = [Outcome("load", i, "") EXCEPT !.found = TRUE]
           ELSE /\ instances' = [instances EXCEPT ![i] = NotRestored(inst)]
                /\ outcome' = Outcome("load", i, "")
        /\ UNCHANGED <<fs, dirs, saved, seed, fits, readers>>
        /\ UNCHANGED <<riskVars, detectorVars, classifierVars, apiVars>>

\* No dictionary read from a file.
NoData == [algorithm |-> "", params |-> EmptyParams, model |-> NoModel]

\* An object on which no load() is in progress.
Idle == [pc |-> "idle", data |-> NoData, found |-> FALSE]

\* load() on object i, first step: os.path.exists(self.model_path); a
\* missing file is warned about and the call is over.
LoadBegin(i) ==
    LET inst == instances[i]
    IN  /\ inst.exists
        /\ readers[i].pc \in {"idle", "done"}
        /\ IF inst.model_path \in DOMAIN fs
           THEN /\ readers' = [readers EXCEPT ![i] = [Idle EXCEPT !.pc = "read"]]
                /\ outcome' = outcome
           ELSE /\ readers' = [readers EXCEPT ![i] = [Idle EXCEPT !.pc = "done"]]
                /\ outcome' = Outcome("load", i, "")
        /\ UNCHANGED <<instances, fs, dirs, saved, seed, fits>>
        /\ UNCHANGED <<riskVars, detectorVars, classifierVars, apiVars>>

\* load() on object i, second step: data = joblib.load(self.model_path)
LoadRead(i) ==
    /\ readers[i].pc = "read"
    /\ readers' = [readers EXCEPT ![i].pc = "algorithm",
                                  ![i].data = fs[instances[i].model_path],
                                  ![i].found = TRUE]
    /\ UNCHANGED <<instances, fs, dirs, saved, outcome, seed, fits>>
    /\ UNCHANGED <<riskVars, detectorVars, classifierVars, apiVars>>

\* Mutation of Assigned: self.params is not assigned.
AssignedExceptParams(inst, data, key) ==
    CASE key = "algorithm" ->
           [inst EXCEPT !.algorithm = DictGet(data, "algorithm", "dbscan")]
      [] key = "params" -> inst
      [] key = "model" -> [inst EXCEPT !.model = DictGet(data, "model", NoModel)]

\* The object after one assignment of load(): self.<key> = data.get(key, ..)
Assigned(inst, data, key) ==
    CASE key = "algorithm" ->
           [inst EXCEPT !.algorithm = DictGet(data, "algorithm", "dbscan")]
      [] key = "params" ->
           [inst EXCEPT !.params = DictGet(data, "params", EmptyParams)]
      [] key = "model" -> [inst EXCEPT !.model = DictGet(data, "model", NoModel)]

\* load() on object i, the three assignments in their order; the call is
\* over after the last.
LoadAssign(i) ==
    LET key == readers[i].pc
    IN  /\ key \in {"algorithm", "params", "model"}
        /\ instances' =
              [instances EXCEPT ![i] = Assigned(instances[i], readers[i].data, key)]
        /\ readers' =
              [readers EXCEPT ![i].pc =
                  CASE key = "algorithm" -> "params"
                    [] key = "params" -> "model"
                    [] key = "model" -> "done"]
        /\ outcome' = IF key = "model"
                      THEN [Outcome("load", i, "") EXCEPT !.found = TRUE]
                      ELSE outcome
        /\ UNCHANGED <<fs, dirs, saved, seed, fits>>
        /\ UNCHANGED <<riskVars, detectorVars, classifierVars, apiVars>>

ClusterInit ==
    /\ readers = [i \in InstanceIds |-> Idle]
    /\ instances = [i \in InstanceIds |-> NoInstance]
    /\ fs = <<>>
    /\ dirs = {}
    /\ saved = <<>>
    /\ outcome = Outcome("none", "", "")
    /\ seed \in Seeds
    /\ fits = <<>>

(***************************************************************************)
(* AnomalyDetector                                                         *)
(*                                                                         *)
(* contamination is in percent (0.05 is 5); scores are whole numbers and   *)
(* the offset of a fitted forest is held in hundredths of a score.         *)
(***************************************************************************)

\* contamination: float = 0.05
DefaultContamination == 5

\* The contamination arguments of the constructor.
Contaminations == {DefaultContamination, 25, 50}

\* The rows [latitude, longitude, severity] of the batches: two incidents
\* close to each other, one apart from them, one in between.
DetectorRows == {<<0, 0, 1>>, <<1, 0, 1>>, <<9, 9, 5>>}

\* Most rows of a batch.
MaxBatch == 3

\* The batches passed to the detector.
Batches == Arrays(DetectorRows, MaxBatch)

\* IsolationForest(contamination, random_state=42), unfitted.
IsolationForest(contamination) ==
    [contamination |-> contamination, fitted |-> FALSE, trained_on |-> <<>>,
     offset |-> 0]

\* AnomalyDetector(contamination, model_path)
AnomalyDetector(contamination) ==
    [model |-> IsolationForest(contamination),
     model_path |-> "models/anomaly_model.joblib"]

AbsDiff(a, b) == IF a >= b THEN a - b ELSE b - a

RECURSIVE Apartness(_, _, _)
\* the summed distance of row x from rows j..Len(T) of T
Apartness(T, x, j) ==
    IF j > Len(T) THEN 0
    ELSE AbsDiff(x[1], T[j][1]) + AbsDiff(x[2], T[j][2]) + AbsDiff(x[3], T[j][3])
         + Apartness(T, x, j + 1)

\* score_samples of a forest built from the rows T, for row x: the lower the
\* more anomalous. The seeded trees are not built here; the score stands for
\* the depth at which they isolate x, by how far x lies from the rows of T
\* (equal for all rows of a batch of one or two rows, as in the forest).
ScoreSamples(T, x) == 0 - Apartness(T, x, 1)

\* the k-th smallest (k = 0 for the smallest) of the scores s
KthSmallest(s, k) ==
    CHOOSE v \in {s[j] : j \in 1..Len(s)} :
        /\ Cardinality({j \in 1..Len(s) : s[j] < v}) <= k
        /\ k < Cardinality({j \in 1..Len(s) : s[j] <= v})

\* Mutation of Percentile: the next score above, without interpolation.
PercentileHigher(s, q) ==
    LET pos == (Len(s) - 1) * q
        lo == pos \div 100
    IN  100 * (IF pos % 100 = 0 THEN KthSmallest(s, lo)
               ELSE KthSmallest(s, lo + 1)) + 1

\* np.percentile(s, q), linear interpolation, in hundredths
Percentile(s, q) ==
    LET pos == (Len(s) - 1) * q
        lo == pos \div 100
        fr == pos % 100
        a == KthSmallest(s, lo)
        b == IF fr = 0 THEN a ELSE KthSmallest(s, lo + 1)
    IN  100 * a + (b - a) * fr

\* IsolationForest.fit(T): the trees, and the offset at the contamination
\* percentile of the training scores
Fitted(model, T) ==
    [model EXCEPT
        !.fitted = TRUE,
        !.trained_on = T,
        !.offset = Percentile([j \in 1..Len(T) |-> ScoreSamples(T, T[j])],
                              model.contamination)]

\* decision_function(X) = score_samples(X) - offset_, in hundredths
DecisionFunction(model, X) ==
    [i \in 1..Len(X) |-> 100 * ScoreSamples(model.trained_on, X[i]) - model.offset]

\* predict(X): -1 where the decision function is negative, 1 elsewhere
Predict(model, X) ==
    LET d == DecisionFunction(model, X)
    IN  [i \in 1..Len(X) |-> IF d[i] < 0 THEN 0 - 1 ELSE 1]

\* One AnomalyDetector call as its caller sees it.
DetectorCall(op, batch, error) ==
    [op |-> op, batch |-> batch, error |-> error, labels |-> <<>>,
     scores |-> <<>>, found |-> FALSE]

\* AnomalyDetector.fit_predict(batch): IsolationForest.fit_predict, that is
\* fit(batch) then predict(batch); an empty batch is rejected by fit. Of
\* this call and the calls `earlier`, the `keep` latest are remembered.
DetectorFitPredict(batch, earlier, keep) ==
    /\ IF Len(batch) = 0
       THEN /\ detector' = detector
            /\ detections' =
                  Latest(DetectorCall("fit_predict", batch, "ValueError"),
                         earlier, keep)
       ELSE LET model == Fitted(detector.model, batch)
            IN  /\ detector' = [detector EXCEPT !.model = model]
                /\ detections' =
                      Latest([DetectorCall("fit_predict", batch, "") EXCEPT
                                 !.labels = Predict(model, batch)],
                             earlier, keep)
    /\ UNCHANGED detector_file
    /\ UNCHANGED <<riskVars, clusterVars, classifierVars, apiVars>>

\* AnomalyDetector.get_anomaly_scores(batch): decision_function of the
\* model as it is, which raises NotFittedError on an unfitted forest.
GetAnomalyScores(batch, earlier, keep) ==
    /\ detections' =
          Latest(IF ~detector.model.fitted
                 THEN DetectorCall("get_anomaly_scores", batch, "NotFittedError")
                 ELSE IF Len(batch) = 0
                 THEN DetectorCall("get_anomaly_scores", batch, "ValueError")
                 ELSE [DetectorCall("get_anomaly_scores", batch, "") EXCEPT
                          !.scores = DecisionFunction(detector.model, batch)],
                 earlier, keep)
    /\ UNCHANGED <<detector, detector_file>>
    /\ UNCHANGED <<riskVars, clusterVars, classifierVars, apiVars>>

\* AnomalyDetector.save(): joblib.dump(self.model, self.model_path)
DetectorSave ==
    /\ detector_file' = [exists |-> TRUE, model |-> detector.model]
    /\ detections' = <<DetectorCall("save", <<>>, "")>>
    /\ UNCHANGED detector
    /\ UNCHANGED <<riskVars, clusterVars, classifierVars, apiVars>>

\* AnomalyDetector.load(): takes the model from the file when it exists,
\* warns and changes nothing otherwise.
DetectorLoad ==
    /\ IF detector_file.exists
       THEN /\ detector' = [detector EXCEPT !.model = detector_file.model]
            /\ detections' =
                  <<[DetectorCall("load", <<>>, "") EXCEPT !.found = TRUE]>>
       ELSE /\ detector' = detector
            /\ detections' = <<DetectorCall("load", <<>>, "")>>
    /\ UNCHANGED detector_file
    /\ UNCHANGED <<riskVars, clusterVars, classifierVars, apiVars>>

\* anomaly_detector = AnomalyDetector(), its load() call commented out.
DetectorInit ==
    /\ detector = AnomalyDetector(DefaultContamination)
    /\ detector_file = [exists |-> FALSE, model |-> IsolationForest(0)]
    /\ detections = <<>>

(***************************************************************************)
(* CrimeRiskClassifier                                                     *)
(***************************************************************************)

ModelTypes == {"logistic", "random_forest", "xgboost"}

\* The classifier objects of a process.
ClassifierIds == {"c1", "c2"}

\* min_samples_split of the forest: a node with fewer samples is a leaf
MinSamplesSplit == 5

\* _create_model(): the untrained estimator of the model type. A fitted
\* estimator is told by the rows and labels it was fitted on and, for the
\* forest, by where its bootstrap draws led.
CreateModel(model_type) ==
    [kind |-> model_type, trained |-> FALSE, X |-> <<>>, y |-> <<>>, draws |-> 0]

\* self.feature_importance = None
NoImportance == [is_none |-> TRUE, importance |-> <<>>]

\* CrimeRiskClassifier(model_type)
CrimeRiskClassifier(model_type) ==
    [model_type |-> model_type, model |-> CreateModel(model_type),
     feature_importance |-> NoImportance]

\* filepath arguments of save_model and load_model.
Filepaths == {"models/risk_classifier.joblib", "models/risk_backup.joblib"}

\* The two rows of the scenario (latitude and longitude in hundredths, hour,
\* day of week, month), their labels, and a third row.
ScenarioRows == << <<2870, 7710, 22, 2, 1>>, <<1907, 7287, 14, 3, 6>> >>
ScenarioLabels == <<1, 0>>
OtherRow == <<1907, 7287, 3, 0, 12>>

\* Most rows of a training set; the forest's trees are single leaves as long
\* as there are fewer rows than min_samples_split.
MaxTrain == 2

\* X_train, y_train
TrainSets ==
    {[X |-> X, y |-> y] :
        X \in UNION {[1..n -> {ScenarioRows[1], ScenarioRows[2]}] :
                        n \in 1..Min(MaxTrain, MinSamplesSplit - 1)},
        y \in UNION {[1..n -> {0, 1}] : n \in 1..Min(MaxTrain, MinSamplesSplit - 1)}}

\* X of predict, predict_proba and evaluate
InferenceInputs == {ScenarioRows, <<OtherRow>>, <<ScenarioRows[2], OtherRow>>}

\* Where the bootstrap draws of random_state=42 can lead: how far, in
\* percent, the average over the trees lies from the share of class 1.
Bootstraps == {0 - 5, 0, 5}

\* how many labels of y are cls
CountOf(y, cls) == Cardinality({i \in 1..Len(y) : y[i] = cls})

\* classes_: the sorted distinct labels
Classes(y) ==
    IF CountOf(y, 0) = 0 THEN <<1>>
    ELSE IF CountOf(y, 1) = 0 THEN <<0>>
    ELSE <<0, 1>>

\* estimator.fit(X, y)
ClassifierFit(model, X, y, draws) ==
    [model EXCEPT
        !.trained = TRUE, !.X = X, !.y = y,
        !.draws = IF model.kind = "random_forest" THEN draws ELSE 0]

\* The forest's probability of class 1 in percent. With fewer rows than
\* min_samples_split every tree is a single leaf holding the class shares of
\* its bootstrap sample, so the average is the same for every input row.
ForestShare(model) ==
    (100 * CountOf(model.y, 1)) \div Len(model.y) + model.draws

\* The boosted trees' probability of class 1 in percent. With so few rows no
\* split has enough weight, every tree is a single leaf, and the result is
\* the share of class 1 shrunk towards one half, for every input row.
BoostedShare(model) ==
    (100 * CountOf(model.y, 1) + 50) \div (Len(model.y) + 1)

RECURSIVE ColumnSum(_, _, _, _)
RECURSIVE Margin(_, _, _)

\* the sum of column k over the training rows labelled cls
ColumnSum(model, cls, k, i) ==
    IF i > Len(model.X) THEN 0
    ELSE (IF model.y[i] = cls THEN model.X[i][k] ELSE 0)
         + ColumnSum(model, cls, k, i + 1)

\* decision_function of the logistic model for row x. The solver's
\* coefficients are not computed here; the margin stands for them by the
\* side of the midpoint between the two class means on which x lies (scaled
\* down by ten in each factor).
Margin(model, x, k) ==
    IF k > Len(x) THEN 0
    ELSE LET n0 == CountOf(model.y, 0)
             n1 == CountOf(model.y, 1)
             s0 == ColumnSum(model, 0, k, 1)
             s1 == ColumnSum(model, 1, k, 1)
         IN  ((n0 * s1 - n1 * s0) \div 10)
                 * ((2 * n0 * n1 * x[k] - (n0 * s1 + n1 * s0)) \div 10)
             + Margin(model, x, k + 1)

\* expit(m) in percent, above one half exactly when m is positive
Sigmoid(m) ==
    IF m = 0 THEN 50
    ELSE IF m > 0 THEN 100 - 50 \div (1 + m)
    ELSE 50 \div (1 - m)

\* estimator.predict_proba(X)[i], in percent, one entry per class
ProbaRow(model, x) ==
    IF Len(Classes(model.y)) = 1 THEN <<100>>
    ELSE LET p == IF model.kind = "random_forest" THEN ForestShare(model)
                  ELSE IF model.kind = "xgboost" THEN BoostedShare(model)
                  ELSE Sigmoid(Margin(model, x, 1))
         IN  <<100 - p, p>>

\* Mutation of ArgMax: the first position of the smallest entry.
ArgMin(p) ==
    CHOOSE i \in 1..Len(p) :
        /\ \A j \in 1..Len(p) : p[j] >= p[i]
        /\ \A j \in 1..(i - 1) : p[j] > p[i]

\* np.argmax(p): the first position of the largest entry
ArgMax(p) ==
    CHOOSE i \in 1..Len(p) :
        /\ \A j \in 1..Len(p) : p[j] <= p[i]
        /\ \A j \in 1..(i - 1) : p[j] < p[i]

\* estimator.predict(X)[i]: the forest takes the class of the largest
\* probability, the boosted trees class 1 above one half, the logistic model
\* class 1 at a positive decision_function.
PredictRow(model, x) ==
    IF Len(Classes(model.y)) = 1 THEN Classes(model.y)[1]
    ELSE IF model.kind = "random_forest"
         THEN Classes(model.y)[ArgMax(ProbaRow(model, x))]
    ELSE IF model.kind = "xgboost"
         THEN (IF BoostedShare(model) > 50 THEN 1 ELSE 0)
    ELSE (IF Margin(model, x, 1) > 0 THEN 1 ELSE 0)

\* self.model.predict_proba(X)
ClassifierProba(model, X) == [i \in 1..Len(X) |-> ProbaRow(model, X[i])]

\* self.model.predict(X)
ClassifierPredict(model, X) == [i \in 1..Len(X) |-> PredictRow(model, X[i])]

\* One classifier call as its caller sees it.
Classified(op, c, filepath, X, y, error, output) ==
    [op |-> op, c |-> c, filepath |-> filepath, X |-> X, y |-> y,
     error |-> error, output |-> output]

\* Training sets the model can be fitted on: the logistic model and the
\* boosted trees are given both classes.
Trainable(c, set) ==
    /\ Len(set.X) = Len(set.y)
    /\ classifier[c].model.kind # "random_forest" => Len(Classes(set.y)) = 2

\* train(X_train, y_train) on classifier c: fits the estimator and, where
\* the estimator has feature_importances_ (all zero for single leaves),
\* stores them.
Train(c, set, earlier, keep) ==
    /\ Trainable(c, set)
    /\ classifier' =
          [classifier EXCEPT
              ![c].model = ClassifierFit(@, set.X, set.y, bootstrap),
              ![c].feature_importance =
                  IF classifier[c].model.kind = "logistic" THEN @
                  ELSE [is_none |-> FALSE,
                        importance |-> [k \in 1..Len(set.X[1]) |-> 0]]]
    /\ classified' = Latest(Classified("train", c, "", set.X, set.y, "", <<>>), earlier, keep)
    /\ UNCHANGED <<classifier_fs, bootstrap>>
    /\ UNCHANGED <<riskVars, clusterVars, detectorVars, apiVars>>

\* Mutation of AfterInference: the call forgets the fit.
AfterInferenceUnfitted(obj) == [obj EXCEPT !.model = CreateModel(obj.model_type)]

\* The object after predict, predict_proba or evaluate, which only read
\* self.model.
AfterInference(obj) == obj

\* An inference call on classifier c whose estimator gives `output`; an
\* estimator never fitted raises NotFittedError.
Inference(op, c, X, y, output, earlier, keep) ==
    /\ classified' =
          Latest(IF classifier[c].model.trained
                 THEN Classified(op, c, "", X, y, "", output)
                 ELSE Classified(op, c, "", X, y, "NotFittedError", <<>>),
                 earlier, keep)
    /\ classifier' = [classifier EXCEPT ![c] = AfterInference(@)]
    /\ UNCHANGED <<classifier_fs, bootstrap>>
    /\ UNCHANGED <<riskVars, clusterVars, detectorVars, apiVars>>

\* predict(X) on classifier c
PredictOn(c, X, earlier, keep) ==
    Inference("predict", c, X, <<>>,
              IF classifier[c].model.trained
              THEN ClassifierPredict(classifier[c].model, X) ELSE <<>>,
              earlier, keep)

\* predict_proba(X) on classifier c
PredictProbaOn(c, X, earlier, keep) ==
    Inference("predict_proba", c, X, <<>>,
              IF classifier[c].model.trained
              THEN ClassifierProba(classifier[c].model, X) ELSE <<>>,
              earlier, keep)

\* evaluate(X_test, y_test) on classifier c: the number of rows predicted as
\* labelled, of how many (accuracy).
Evaluate(c, X, y, earlier, keep) ==
    /\ Len(X) = Len(y)
    /\ Inference("evaluate", c, X, y,
                 IF classifier[c].model.trained
                 THEN LET y_pred == ClassifierPredict(classifier[c].model, X)
                      IN  <<Cardinality({i \in 1..Len(X) : y_pred[i] = y[i]}),
                            Len(X)>>
                 ELSE <<>>,
                 earlier, keep)

\* save_model(filepath) on classifier c: joblib.dump(self.model, filepath)
SaveModel(c, filepath, earlier, keep) ==
    /\ classifier_fs' = Written(classifier_fs, filepath, classifier[c].model)
    /\ classified' =
          Latest(Classified("save_model", c, filepath, <<>>, <<>>, "", <<>>), earlier, keep)
    /\ UNCHANGED <<classifier, bootstrap>>
    /\ UNCHANGED <<riskVars, clusterVars, detectorVars, apiVars>>

\* Mutation of Loaded: the estimator of the loading object's model type.
LoadedAsConstructed(obj, stored) ==
    [obj EXCEPT !.model = [stored EXCEPT !.kind = obj.model_type]]

\* self.model = joblib.load(filepath): the stored estimator replaces the
\* object's; model_type and feature_importance stay.
Loaded(obj, stored) == [obj EXCEPT !.model = stored]

\* load_model(filepath) on classifier c, which raises FileNotFoundError when
\* there is no such file.
LoadModel(c, filepath, earlier, keep) ==
    /\ IF filepath \in DOMAIN classifier_fs
       THEN /\ classifier' =
                  [classifier EXCEPT ![c] = Loaded(@, classifier_fs[filepath])]
            /\ classified' =
                  Latest(Classified("load_model", c, filepath, <<>>, <<>>, "", <<>>),
                         earlier, keep)
       ELSE /\ classifier' = classifier
            /\ classified' =
                  Latest(Classified("load_model", c, filepath, <<>>, <<>>,
                                    "FileNotFoundError", <<>>),
                         earlier, keep)
    /\ UNCHANGED <<classifier_fs, bootstrap>>
    /\ UNCHANGED <<riskVars, clusterVars, detectorVars, apiVars>>

\* Two classifiers as CrimeRiskClassifier() builds them, no file written yet.
ClassifierInit ==
    /\ classifier = [c \in ClassifierIds |-> CrimeRiskClassifier("random_forest")]
    /\ classifier_fs = <<>>
    /\ classified = <<>>
    /\ bootstrap = 0

(***************************************************************************)
(* API handlers                                                            *)
(***************************************************************************)

\* Incident records posted to /detect-anomalies: the three columns the
\* handler reads and one it does not.
Incidents ==
    {[latitude |-> 0, longitude |-> 0, severity |-> 1, crime_type |-> "Theft"],
     [latitude |-> 9, longitude |-> 9, severity |-> 5, crime_type |-> "Assault"],
     [latitude |-> 9, longitude |-> 9, severity |-> 5, crime_type |-> "Fraud"]}

\* Most records of a posted list of drawn records.
MaxRecords == 3

\* The shortest list of which the default contamination lets two records be
\* labelled anomalous.
CrowdSize == 2 * (100 \div DefaultContamination) + 1

\* A crowd of thefts at one place with a record far from it at either end.
Crowd(first, final) ==
    [i \in 1..CrowdSize |->
        IF i = 1 THEN first
        ELSE IF i = CrowdSize THEN final
        ELSE [latitude |-> 0, longitude |-> 0, severity |-> 1,
              crime_type |-> "Theft"]]

\* data: List[Dict[str, Any]], short
RecordLists == Arrays(Incidents, MaxRecords)

\* data: List[Dict[str, Any]], long
Crowds == {Crowd(first, final) : first, final \in Incidents}

\* features = df[["latitude", "longitude", "severity"]].values
Features(data) ==
    [i \in 1..Len(data) |-> <<data[i].latitude, data[i].longitude, data[i].severity>>]

RECURSIVE AnomaliesNormal(_, _, _)
RECURSIVE Anomalies(_, _, _)

\* Mutation of Anomalies: the records labelled 1.
AnomaliesNormal(data, labels, i) ==
    IF i > Len(labels) THEN <<>>
    ELSE (IF labels[i] = 1 THEN <<data[i]>> ELSE <<>>)
         \o AnomaliesNormal(data, labels, i + 1)

\* [data[i] for i in range(len(labels)) if labels[i] == -1], from i on
Anomalies(data, labels, i) ==
    IF i > Len(labels) THEN <<>>
    ELSE (IF labels[i] = 0 - 1 THEN <<data[i]>> ELSE <<>>)
         \o Anomalies(data, labels, i + 1)

\* One handler call as its caller sees it: the view, its arguments, the
\* exception it ended with, and the body it returned.
Response(view, query, error, body) ==
    [view |-> view, query |-> query, error |-> error, body |-> body]

\* labels = anomaly_detector.fit_predict(features), tabulated by the
\* detector's contamination and the posted list (by length first): the
\* columns read, the forest fitted on them, which keeps nothing of an earlier
\* fit, and its labels.
FitPredictTable ==
    [c \in Contaminations |->
        [n \in (1..MaxRecords) \cup {CrowdSize} |->
            [data \in (IF n = CrowdSize THEN Crowds ELSE [1..n -> Incidents]) |->
                LET features == Features(data)
                    model == Fitted(IsolationForest(c), features)
                IN  [features |-> features, model |-> model,
                     labels |-> Predict(model, features)]]]]

\* detect_anomalies(data): an empty list is answered with no anomalies; any
\* other list is handed to the module's detector, which re-fits on it.
DetectAnomalies(data) ==
    /\ IF Len(data) = 0
       THEN /\ response' = Response("detect_anomalies", data, "", <<>>)
            /\ UNCHANGED <<detector, detections>>
       ELSE LET res == FitPredictTable[detector.model.contamination][Len(data)][data]
            IN  /\ detector' = [detector EXCEPT !.model = res.model]
                /\ detections' =
                      <<[DetectorCall("fit_predict", res.features, "") EXCEPT
                            !.labels = res.labels]>>
                /\ response' =
                      Response("detect_anomalies", data, "",
                               Anomalies(data, res.labels, 1))
    /\ UNCHANGED <<detector_file, clustered_data>>
    /\ UNCHANGED <<riskVars, clusterVars, classifierVars>>

\* A query parameter left out (None) and one passed with a value.
None == [given |-> FALSE, value |-> 0]
Given(value) == [given |-> TRUE, value |-> value]

\* pd.DataFrame(): no columns, no rows.
DataFrame == [columns |-> {}, rows |-> <<>>]

\* The columns of data/processed/clustered_crime_data.csv.
ClusteredColumns ==
    {"latitude", "longitude", "crime_type", "severity", "date", "cluster"}

\* Rows of a clustered-data file: degrees in hundredths, date in hours since
\* 2024-01-01T00:00 (ISO strings of one format order as these numbers do),
\* cluster -1 for noise.
ClusteredRows ==
    <<[latitude |-> 10, longitude |-> 10, crime_type |-> "Theft",
       severity |-> 2, date |-> 30, cluster |-> 0],
      [latitude |-> 12, longitude |-> 12, crime_type |-> "Assault",
       severity |-> 4, date |-> 71, cluster |-> 0],
      [latitude |-> 40, longitude |-> 40, crime_type |-> "Theft",
       severity |-> 1, date |-> 30, cluster |-> 0 - 1]>>

\* What may lie at data/processed/clustered_crime_data.csv when the module is
\* imported: nothing, a header line only, or a header and rows.
CsvFiles ==
    {[exists |-> FALSE, rows |-> <<>>],
     [exists |-> TRUE, rows |-> <<>>],
     [exists |-> TRUE, rows |-> ClusteredRows]}

\* try: pd.read_csv(...) except Exception: pd.DataFrame()
ReadCsv(file) ==
    IF file.exists
    THEN [columns |-> ClusteredColumns, rows |-> file.rows]
    ELSE DataFrame

\* df.empty
Empty(df) == df.columns = {} \/ df.rows = <<>>

\* Half the side of the square of a location filter: 0.05 degree.
Radius == 5

\* df[(df["latitude"] >= lat - 0.05) & (df["latitude"] <= lat + 0.05) &
\*    (df["longitude"] >= lon - 0.05) & (df["longitude"] <= lon + 0.05)]
Around(df, lat, lon) ==
    [df EXCEPT !.rows =
        SelectSeq(df.rows,
                  LAMBDA r : /\ r.latitude >= lat - Radius
                             /\ r.latitude <= lat + Radius
                             /\ r.longitude >= lon - Radius
                             /\ r.longitude <= lon + Radius)]

\* int(hashlib.md5(f"{lat:.4f}{lon:.4f}".encode()).hexdigest(), 16) % 2**32:
\* a number fixed by the two formatted coordinates, here a small hash.
Seed(lat, lon) == (lat * 1000 + lon) % 8191

\* rng = random.Random(seed): the n-th number the generator draws. A small
\* quadratic formula stands for the Mersenne Twister; the draws depend on
\* the seed only, as theirs do.
Rng(s, n) == ((s + 7 * n) * (s + 7 * n) + n) % 8191

crime_types == <<"Theft", "Assault", "Burglary", "Vandalism", "Fraud", "Harassment">>

\* [0,1,2,3,4,18,19,20,21,22,23] * 3 + list(range(5, 18))
HourChoices ==
    LET night == <<0, 1, 2, 3, 4, 18, 19, 20, 21, 22, 23>>
    IN  night \o night \o night \o [i \in 1..13 |-> i + 4]

\* The loop of generate_synthetic_data: six draws a row, in the order of the
\* code.
SyntheticRows(s, lat, lon, count) ==
    [k \in 1..count |->
        LET d(n) == Rng(s, 6 * (k - 1) + n)
            hour == HourChoices[(d(3) % Len(HourChoices)) + 1]
            random_days == d(4) % 366
        IN  [latitude |-> lat + (d(1) % 9) - 4,
             longitude |-> lon + (d(2) % 9) - 4,
             crime_type |-> crime_types[(d(5) % Len(crime_types)) + 1],
             severity |-> (d(6) % 5) + 1,
             date |-> random_days * 24 + hour]]

\* Coordinates a request passes, in hundredths of a degree: one near the
\* rows of the clustered-data file and one far from them.
CoordinateValues == {10, 90}

\* Rows a synthetic frame of the heatmap and of the analytics view holds.
HeatmapCount == 100
AnalyticsCount == 150

\* pd.DataFrame(data) of generate_synthetic_data, tabulated by count and
\* location.
SyntheticTable ==
    [count \in {HeatmapCount, AnalyticsCount} |->
        [lat \in CoordinateValues |->
            [lon \in CoordinateValues |->
                [columns |-> {"latitude", "longitude", "crime_type",
                              "severity", "date"},
                 rows |-> SyntheticRows(Seed(lat, lon), lat, lon, count)]]]]

\* generate_synthetic_data(lat, lon, count): count rows around the location,
\* fixed by the location.
generate_synthetic_data(lat, lon, count) == SyntheticTable[count][lat][lon]

RECURSIVE Ascending(_)

\* The numbers of a set in ascending order, as groupby orders its keys.
Ascending(S) ==
    IF S = {} THEN <<>>
    ELSE LET least == CHOOSE x \in S : \A y \in S : x <= y
         IN  <<least>> \o Ascending(S \ {least})

RECURSIVE ColumnTotal(_, _, _)

\* The sum of one coordinate over the rows from i on.
ColumnTotal(rows, column, i) ==
    IF i > Len(rows) THEN 0
    ELSE (IF column = "latitude" THEN rows[i].latitude ELSE rows[i].longitude)
         + ColumnTotal(rows, column, i + 1)

\* get_hotspots(): no clusters for the empty frame; otherwise, for every
\* cluster but noise in ascending order, the mean position (in 0.0001 degree,
\* truncated) and the number of rows.
GetHotspots ==
    /\ IF Empty(clustered_data)
       THEN response' = Response("hotspots", <<>>, "", [clusters |-> <<>>])
       ELSE LET valid_clusters ==
                    SelectSeq(clustered_data.rows, LAMBDA r : r.cluster # 0 - 1)
                keys == Ascending({valid_clusters[i].cluster :
                                      i \in 1..Len(valid_clusters)})
                result ==
                    [k \in 1..Len(keys) |->
                        LET members == SelectSeq(valid_clusters,
                                           LAMBDA r : r.cluster = keys[k])
                        IN  [cluster |-> keys[k],
                             latitude |-> (ColumnTotal(members, "latitude", 1) * 100)
                                              \div Len(members),
                             longitude |-> (ColumnTotal(members, "longitude", 1) * 100)
                                              \div Len(members),
                             count |-> Len(members)]]
            IN  response' = Response("hotspots", <<>>, "", [clusters |-> result])
    /\ UNCHANGED clustered_data
    /\ UNCHANGED <<riskVars, clusterVars, detectorVars, classifierVars>>

\* if crime_type and crime_type != "All"
CrimeTypeAsked(crime_type) ==
    /\ crime_type.given
    /\ crime_type.value # ""
    /\ crime_type.value # "All"

\* df[["latitude", "longitude", "severity"]].to_dict(orient="records")
Points(rows) ==
    [i \in 1..Len(rows) |->
        [latitude |-> rows[i].latitude, longitude |-> rows[i].longitude,
         severity |-> rows[i].severity]]

\* The arguments of a heatmap-data or analytics request.
Query(crime_type, start_date, end_date, lat, lon) ==
    [crime_type |-> crime_type, start_date |-> start_date,
     end_date |-> end_date, lat |-> lat, lon |-> lon]

\* get_heatmap_data(crime_type, start_date, end_date, lat, lon): the rows
\* near the location, or synthetic rows where the frame has none there,
\* filtered by crime type and dates; selecting a column the frame does not
\* have raises KeyError.
GetHeatmapData(crime_type, start_date, end_date, lat, lon) ==
    LET query == Query(crime_type, start_date, end_date, lat, lon)
        df == IF ~Empty(clustered_data) THEN clustered_data ELSE DataFrame
        located == lat.given /\ lon.given
        local_df == Around(df, lat.value, lon.value)
        place == IF ~located THEN df
                 ELSE IF ~Empty(local_df) THEN local_df
                 ELSE generate_synthetic_data(lat.value, lon.value, HeatmapCount)
        typed == IF CrimeTypeAsked(crime_type)
                 THEN SelectSeq(place.rows,
                                LAMBDA r : r.crime_type = crime_type.value)
                 ELSE place.rows
        started == IF start_date.given
                   THEN SelectSeq(typed, LAMBDA r : r.date >= start_date.value)
                   ELSE typed
        ended == IF end_date.given
                 THEN SelectSeq(started, LAMBDA r : r.date <= end_date.value)
                 ELSE started
    IN  /\ IF located /\ ~({"latitude", "longitude"} \subseteq df.columns)
           THEN response' = Response("heatmap-data", query, "KeyError", <<>>)
           ELSE IF Empty(place) /\ ~located
           THEN response' = Response("heatmap-data", query, "", <<>>)
           ELSE response' = Response("heatmap-data", query, "", Points(ended))
        /\ UNCHANGED clustered_data
        /\ UNCHANGED <<riskVars, clusterVars, detectorVars, classifierVars>>

days_order ==
    <<"Monday", "Tuesday", "Wednesday", "Thursday", "Friday", "Saturday", "Sunday">>

\* df['date'].dt.hour
Hour(date) == date % 24

\* df['date'].dt.day_name(): 2024-01-01 is a Monday
DayName(date) == days_order[((date \div 24) % 7) + 1]

RECURSIVE HourlyFrom(_, _)

\* df.groupby('hour').size().reset_index(name='count'), from hour h on: the
\* hours that have rows, ascending, each with the number of its rows.
HourlyFrom(rows, h) ==
    IF h > 23 THEN <<>>
    ELSE LET n == Len(SelectSeq(rows, LAMBDA r : Hour(r.date) = h))
         IN  (IF n = 0 THEN <<>> ELSE <<[hour |-> h, count |-> n]>>)
             \o HourlyFrom(rows, h + 1)

\* The index of the first row of a crime type.
FirstRow(rows, t) ==
    CHOOSE i \in 1..Len(rows) :
        /\ rows[i].crime_type = t
        /\ \A j \in 1..(i - 1) : rows[j].crime_type # t

RECURSIVE ValueCounts(_, _)

\* df['crime_type'].value_counts().reset_index() over the crime types of the
\* set left: by falling count, equal counts in the order of first appearance.
ValueCounts(rows, left) ==
    IF left = {} THEN <<>>
    ELSE LET n(t) == Len(SelectSeq(rows, LAMBDA r : r.crime_type = t))
             top == CHOOSE t \in left :
                        \A u \in left :
                            \/ n(u) < n(t)
                            \/ n(u) = n(t) /\ FirstRow(rows, t) <= FirstRow(rows, u)
         IN  <<[type |-> top, count |-> n(top)]>>
             \o ValueCounts(rows, left \ {top})

\* get_analytics(lat, lon): three empty lists for the empty frame; otherwise
\* the rows near the location when both coordinates are passed, synthetic
\* rows where there are none, counted by hour, by crime type and by weekday
\* (a weekday without rows counts NaN).
GetAnalytics(lat, lon) ==
    LET query == Query(None, None, None, lat, lon)
        located == lat.given /\ lon.given
        near == IF located THEN Around(clustered_data, lat.value, lon.value)
                ELSE clustered_data
        df == IF Empty(near)
              THEN generate_synthetic_data(lat.value, lon.value, AnalyticsCount)
              ELSE near
        hourly == HourlyFrom(df.rows, 0)
        types == ValueCounts(df.rows,
                             {df.rows[i].crime_type : i \in 1..Len(df.rows)})
        daily == [k \in 1..Len(days_order) |->
                     LET n == Len(SelectSeq(df.rows,
                                   LAMBDA r : DayName(r.date) = days_order[k]))
                     IN  IF n = 0
                         THEN [day |-> days_order[k], count |-> "NaN"]
                         ELSE [day |-> days_order[k], count |-> n]]
    IN  /\ IF Empty(clustered_data)
           THEN response' =
                    Response("analytics", query, "",
                             [hourly_trends |-> <<>>, crime_types |-> <<>>,
                              daily_trends |-> <<>>])
           ELSE IF Empty(near) /\ ~located
           THEN response' = Response("analytics", query, "TypeError", <<>>)
           ELSE response' =
                    Response("analytics", query, "",
                             [hourly_trends |-> hourly, crime_types |-> types,
                              daily_trends |-> daily])
        /\ UNCHANGED clustered_data
        /\ UNCHANGED <<riskVars, clusterVars, detectorVars, classifierVars>>

\* The module after import where data/processed/clustered_crime_data.csv
\* could not be read: the empty frame, and no handler called yet.
ApiInit ==
    /\ clustered_data = ReadCsv([exists |-> FALSE, rows |-> <<>>])
    /\ response = Response("none", <<>>, "", <<>>)

(***************************************************************************)
(* Specifications                                                          *)
(***************************************************************************)

InitRisk ==
    RiskInit /\ ClusterInit /\ DetectorInit /\ ClassifierInit /\ ApiInit

NextRisk == CalculateScore

SpecRisk == InitRisk /\ [][NextRisk]_vars

NextRiskPair == CalculateScoreAgain

InitCluster ==
    /\ hotspot_model = [is_none |-> TRUE, centroid |-> [lat |-> 0, lon |-> 0]]
    /\ np_random = 0
    /\ last = NoCall
    /\ prev = NoCall
    /\ ClusterInit
    /\ DetectorInit
    /\ ClassifierInit
    /\ ApiInit

NextCluster ==
    \/ \E i \in InstanceIds, args \in ConstructArgs, path \in Paths :
          Construct(i, args[1], args[2], path)
    \/ \E i \in InstanceIds, data \in Datasets : FitPredict(i, data)
    \/ \E i \in InstanceIds : Save(i)
    \/ \E i \in InstanceIds : Load(i)

SpecCluster == InitCluster /\ [][NextCluster]_vars

(***************************************************************************)
(* fit_predict of a newly constructed object on drawn input arrays         *)
(***************************************************************************)

\* Most rows of a drawn input array.
MaxPoints == 3

\* The places of the drawn rows: the corners of a square of side 0.01.
GridPoints == {<<x, y>> : x \in {0, 100}, y \in {0, 100}}

\* A row within eps 0.01 of core samples of two clusters (rows 2 and 3, four
\* rows within eps of each) that has only three rows within eps itself.
BorderPoints ==
    [cols |-> 2,
     rows |-> << <<0, 50>>, <<0 - 80, 0>>, <<80, 0>>, <<0, 0 - 60>>,
                 <<0 - 120, 0>>, <<120, 0>> >>]

\* The two-column arrays dbscan is run on.
DbscanInputs ==
    {[cols |-> 2, rows |-> r] : r \in Arrays(GridPoints, MaxPoints)}
        \cup {Points2, BorderPoints}

\* The params dbscan is constructed with.
DbscanTrialParams ==
    {[eps |-> e, min_samples |-> m] : e \in {100, 150}, m \in 2..4}

\* The state after m1 = HotspotClusteringModel(algorithm, params).
InitConstructed(algorithm, params) ==
    /\ hotspot_model = [is_none |-> TRUE, centroid |-> [lat |-> 0, lon |-> 0]]
    /\ np_random = 0
    /\ last = NoCall
    /\ prev = NoCall
    /\ instances =
          [i \in InstanceIds |->
              IF i = "m1"
              THEN Constructed(algorithm, params, "models/hotspot_model.joblib")
              ELSE NoInstance]
    /\ fs = <<>>
    /\ dirs = {"models"}
    /\ saved = <<>>
    /\ outcome = [Outcome("init", "m1", "") EXCEPT !.algorithm = algorithm]
    /\ seed \in Seeds
    /\ fits = <<>>
    /\ readers = [i \in InstanceIds |-> Idle]
    /\ DetectorInit
    /\ ClassifierInit
    /\ ApiInit

\* fit_predict(data) on object i with the fit computed at the call; of this
\* call and the calls `earlier`, the `keep` latest are remembered.
FitPredictDirect(i, data, earlier, keep) ==
    LET res == FitResult(instances[i], data)
    IN  FitPredictWith(i, data, res.error,
                       IF res.error # "" THEN <<>>
                       ELSE Seeded(res.labellings, seed),
                       earlier, keep)

InitDbscan == \E p \in DbscanTrialParams : InitConstructed("dbscan", p)

\* One call on each newly constructed object.
NextDbscan ==
    fits = <<>> /\ \E data \in DbscanInputs : FitPredictDirect("m1", data, fits, 1)

SpecDbscan == InitDbscan /\ [][NextDbscan]_vars

\* The density weights of the drawn rows.
Weights == {0, 1, 2}

\* Most rows of a drawn input array of kmeans.
MaxWeighted == 2

\* Arrays of three rows at three places: without weights, with positive
\* weights, with a weight of zero.
KmeansExamples ==
    {[cols |-> 2, rows |-> << <<0, 0>>, <<100, 0>>, <<100, 100>> >>],
     [cols |-> 3, rows |-> << <<0, 0, 1>>, <<100, 0, 2>>, <<100, 100, 1>> >>],
     [cols |-> 3, rows |-> << <<0, 0, 1>>, <<100, 0, 1>>, <<100, 100, 0>> >>],
     Points3}

\* The arrays kmeans is run on: two columns, and three columns with a
\* density weight in the third.
KmeansInputs ==
    {[cols |-> 2, rows |-> r] : r \in Arrays(GridPoints, MaxWeighted)}
        \cup {[cols |-> 3, rows |-> r] :
                r \in Arrays({<<g[1], g[2], w>> : g \in GridPoints, w \in Weights},
                             MaxWeighted)}
        \cup KmeansExamples

\* The params kmeans is constructed with.
KmeansTrialParams == {[n_clusters |-> k] : k \in 2..3}

InitKmeans == \E p \in KmeansTrialParams : InitConstructed("kmeans", p)

\* One call on each newly constructed object.
NextKmeans ==
    fits = <<>> /\ \E data \in KmeansInputs : FitPredictDirect("m1", data, fits, 1)

SpecKmeans == InitKmeans /\ [][NextKmeans]_vars

\* Latest hour of a drawn row of st-dbscan.
MaxHour == 4

\* The rows st-dbscan is run on: a place (the second and the fourth are
\* 0.01 from the first) and a time in hours.
StRows ==
    {<<g[1], g[2], t>> :
        g \in {<<0, 0>>, <<100, 0>>, <<60, 0>>, <<60, 80>>}, t \in 0..MaxHour}

\* The three-column arrays st-dbscan is run on: up to two rows.
StDbscanInputs == {[cols |-> 3, rows |-> r] : r \in Arrays(StRows, 2)}

\* The params st-dbscan is constructed with.
StDbscanTrialParams ==
    {[eps_spatial |-> es, eps_temporal |-> et, min_samples |-> 2] :
        es \in {100, 200}, et \in {1, 2}}

InitStDbscan == \E p \in StDbscanTrialParams : InitConstructed("st-dbscan", p)

\* One call on each newly constructed object.
NextStDbscan ==
    fits = <<>> /\ \E data \in StDbscanInputs : FitPredictDirect("m1", data, fits, 1)

SpecStDbscan == InitStDbscan /\ [][NextStDbscan]_vars

(***************************************************************************)
(* Repeated fit_predict calls on two objects constructed alike             *)
(***************************************************************************)

\* The state after m1 and m2 were constructed with the same arguments.
InitRefit ==
    \E a \in {x \in ConstructArgs : Lower(x[1]) \in SupportedAlgorithms} :
        /\ hotspot_model = [is_none |-> TRUE, centroid |-> [lat |-> 0, lon |-> 0]]
        /\ np_random = 0
        /\ last = NoCall
        /\ prev = NoCall
        /\ instances =
              [i \in InstanceIds |->
                  Constructed(Lower(a[1]), a[2], "models/hotspot_model.joblib")]
        /\ fs = <<>>
        /\ dirs = {"models"}
        /\ saved = <<>>
        /\ outcome = [Outcome("init", "m2", "") EXCEPT !.algorithm = a[1]]
        /\ seed \in Seeds
        /\ fits = <<>>
        /\ readers = [i \in InstanceIds |-> Idle]
        /\ DetectorInit
        /\ ClassifierInit
        /\ ApiInit

\* Any call on either object; fits remembers the call and one earlier call,
\* the one before it or the one remembered so far.
NextRefit ==
    \E i \in InstanceIds, data \in Datasets,
       earlier \in {fits, SubSeq(fits, 2, Len(fits))} :
        FitPredictDirect(i, data, earlier, 2)

SpecRefit == InitRefit /\ [][NextRefit]_vars

(***************************************************************************)
(* load() calls of two readers, step by step, with no save in progress     *)
(***************************************************************************)

\* The dictionaries a completed save() can have left in the file: those of
\* the constructed objects, fitted or not.
SavedFiles ==
    {Metadata(o) : o \in ConstructedObjects}
        \cup {Metadata([o EXCEPT !.model.fitted = TRUE]) : o \in ConstructedObjects}

\* m1 constructed with any arguments, m2 with the defaults, both with the
\* same model_path; the file is missing or holds what a save() wrote.
InitReaders ==
    \E a \in {x \in ConstructArgs : Lower(x[1]) \in SupportedAlgorithms},
       files \in {<<>>} \cup {[q \in Paths |-> d] : d \in SavedFiles} :
        /\ hotspot_model = [is_none |-> TRUE, centroid |-> [lat |-> 0, lon |-> 0]]
        /\ np_random = 0
        /\ last = NoCall
        /\ prev = NoCall
        /\ instances =
              [i \in InstanceIds |->
                  IF i = "m1"
                  THEN Constructed(Lower(a[1]), a[2], "models/hotspot_model.joblib")
                  ELSE Constructed("dbscan", EmptyParams,
                                   "models/hotspot_model.joblib")]
        /\ fs = files
        /\ dirs = {"models"}
        /\ saved = [q \in DOMAIN files |->
                       [algorithm |-> files[q].algorithm,
                        params |-> files[q].params, model |-> files[q].model,
                        by |-> ""]]
        /\ outcome = [Outcome("init", "m2", "") EXCEPT !.algorithm = "dbscan"]
        /\ seed \in Seeds
        /\ fits = <<>>
        /\ readers = [i \in InstanceIds |-> Idle]
        /\ DetectorInit
        /\ ClassifierInit
        /\ ApiInit

NextReaders ==
    \/ \E i \in InstanceIds : LoadBegin(i)
    \/ \E i \in InstanceIds : LoadRead(i)
    \/ \E i \in InstanceIds : LoadAssign(i)

SpecReaders == InitReaders /\ [][NextReaders]_vars

(***************************************************************************)
(* Saving and restoring the cluster model, the anomaly model and the risk  *)
(* classifier                                                              *)
(***************************************************************************)

InitRestore == InitConstructed("dbscan", EmptyParams)

NextRestore ==
    \/ \E i \in InstanceIds : Save(i)
    \/ \E i \in InstanceIds : Load(i)
    \/ DetectorSave
    \/ DetectorLoad
    \/ \E c \in ClassifierIds, filepath \in Filepaths :
          SaveModel(c, filepath, <<>>, 1)
    \/ \E c \in ClassifierIds, filepath \in Filepaths :
          LoadModel(c, filepath, <<>>, 1)

SpecRestore == InitRestore /\ [][NextRestore]_vars

(***************************************************************************)
(* AnomalyDetector calls                                                   *)
(***************************************************************************)

\* The state after detector = AnomalyDetector(contamination).
InitDetector ==
    \E c \in Contaminations :
        /\ hotspot_model = [is_none |-> TRUE, centroid |-> [lat |-> 0, lon |-> 0]]
        /\ np_random = 0
        /\ last = NoCall
        /\ prev = NoCall
        /\ ClusterInit
        /\ detector = AnomalyDetector(c)
        /\ detector_file = [exists |-> FALSE, model |-> IsolationForest(0)]
        /\ detections = <<>>
        /\ ClassifierInit
        /\ ApiInit

\* fit_predict on any batch; detections remembers the call.
NextDetector == \E batch \in Batches : DetectorFitPredict(batch, detections, 1)

SpecDetector == InitDetector /\ [][NextDetector]_vars

\* Batches of three rows: with one row apart from two close ones, and with
\* two rows apart from one.
SampleBatches ==
    {<< <<0, 0, 1>>, <<1, 0, 1>>, <<9, 9, 5>> >>,
     << <<9, 9, 5>>, <<9, 9, 5>>, <<0, 0, 1>> >>}

\* fit_predict or get_anomaly_scores on a sample batch; detections remembers
\* the call and one earlier call, the one before it or the one remembered so
\* far.
NextDetectorPair ==
    \E batch \in SampleBatches,
       earlier \in {detections, SubSeq(detections, 2, Len(detections))} :
        \/ DetectorFitPredict(batch, earlier, 2)
        \/ GetAnomalyScores(batch, earlier, 2)

SpecDetectorPair == InitDetector /\ [][NextDetectorPair]_vars

\* Anomaly detection through the detector and through the endpoint.
NextDetect ==
    \/ \E batch \in SampleBatches \cup {<<>>} :
          DetectorFitPredict(batch, detections, 1)
    \/ \E data \in RecordLists : DetectAnomalies(data)
    \/ \E data \in Crowds : DetectAnomalies(data)

SpecDetect == InitCluster /\ [][NextDetect]_vars

\* The state after m1 and m2 were constructed, each with its own algorithm
\* and params, on one model_path.
InitVariants ==
    \E a, b \in {x \in ConstructArgs : Lower(x[1]) \in SupportedAlgorithms} :
        /\ hotspot_model = [is_none |-> TRUE, centroid |-> [lat |-> 0, lon |-> 0]]
        /\ np_random = 0
        /\ last = NoCall
        /\ prev = NoCall
        /\ instances =
              [i \in InstanceIds |->
                  Constructed(Lower(IF i = "m1" THEN a[1] ELSE b[1]),
                              IF i = "m1" THEN a[2] ELSE b[2],
                              "models/hotspot_model.joblib")]
        /\ fs = <<>>
        /\ dirs = {"models"}
        /\ saved = <<>>
        /\ outcome = [Outcome("init", "m2", "") EXCEPT !.algorithm = b[1]]
        /\ seed \in Seeds
        /\ fits = <<>>
        /\ readers = [i \in InstanceIds |-> Idle]
        /\ DetectorInit
        /\ ClassifierInit
        /\ ApiInit

\* fit_predict(data) on object i; fits remembers this call and the one
\* before it.
FitPredictAfter(i, data) ==
    LET res == FitTable[FitKey(instances[i])][data]
    IN  FitPredictWith(i, data, res.error, res.labels[seed], fits, 2)

\* A caller that saves m1, loads the file into m2 and calls fit_predict on
\* m1 and then on m2 with the same array.
NextVariants ==
    \/ outcome.op = "init" /\ Save("m1")
    \/ outcome.op = "save" /\ Load("m2")
    \/ /\ outcome.op = "load"
       /\ \E data \in Datasets : FitPredictAfter("m1", data)
    \/ /\ outcome.op = "fit" /\ outcome.inst = "m1"
       /\ FitPredictAfter("m2", fits[1].data)

SpecVariants == InitVariants /\ [][NextVariants]_vars

\* The state after import, whatever lies at the clustered-data path.
InitViews ==
    \E file \in CsvFiles :
        /\ hotspot_model = [is_none |-> TRUE, centroid |-> [lat |-> 0, lon |-> 0]]
        /\ np_random = 0
        /\ last = NoCall
        /\ prev = NoCall
        /\ ClusterInit
        /\ DetectorInit
        /\ ClassifierInit
        /\ clustered_data = ReadCsv(file)
        /\ response = Response("none", <<>>, "", <<>>)

\* Query parameters of the views: left out or passed.
CrimeTypeArgs == {None, Given("All"), Given("Theft")}
DateArgs == {None, Given(48)}
CoordinateArgs == {None} \cup {Given(v) : v \in CoordinateValues}

\* Requests to the three views that read the clustered data.
NextViews ==
    \/ GetHotspots
    \/ \E crime_type \in CrimeTypeArgs, start_date, end_date \in DateArgs,
          lat, lon \in CoordinateArgs :
          GetHeatmapData(crime_type, start_date, end_date, lat, lon)
    \/ \E lat, lon \in CoordinateArgs : GetAnalytics(lat, lon)

SpecViews == InitViews /\ [][NextViews]_vars

(***************************************************************************)
(* CrimeRiskClassifier calls                                               *)
(***************************************************************************)

\* Two classifiers built with any model types, the forest's draws leading
\* anywhere they can.
InitClassifier ==
    \E t1, t2 \in ModelTypes, b \in Bootstraps :
        /\ hotspot_model = [is_none |-> TRUE, centroid |-> [lat |-> 0, lon |-> 0]]
        /\ np_random = 0
        /\ last = NoCall
        /\ prev = NoCall
        /\ ClusterInit
        /\ seed = 0
        /\ DetectorInit
        /\ classifier = [c \in ClassifierIds |->
                            CrimeRiskClassifier(IF c = "c1" THEN t1 ELSE t2)]
        /\ classifier_fs = <<>>
        /\ classified = <<>>
        /\ bootstrap = b
        /\ ApiInit

\* The state after c1 = CrimeRiskClassifier(model_type), c2 as by default.
InitClassify ==
    InitClassifier /\ classifier["c2"].model_type = "random_forest"

\* train, predict and predict_proba on c1; classified remembers the latest
\* two calls.
NextClassify ==
    \/ \E set \in TrainSets : Train("c1", set, classified, 2)
    \/ \E X \in InferenceInputs : PredictOn("c1", X, classified, 2)
    \/ \E X \in InferenceInputs : PredictProbaOn("c1", X, classified, 2)

SpecClassify == InitClassify /\ [][NextClassify]_vars

\* The state after c1 = CrimeRiskClassifier("random_forest"), c2 of any
\* model type.
InitScenario ==
    InitClassifier /\ classifier["c1"].model_type = "random_forest"

\* The scenario's rows under every labelling.
ScenarioSets == {[X |-> ScenarioRows, y |-> y] : y \in [1..Len(ScenarioRows) -> {0, 1}]}

\* c1 is trained on the scenario's rows and saved; either classifier loads
\* and predicts; classified remembers the latest two calls.
NextScenario ==
    \/ \E set \in ScenarioSets : Train("c1", set, classified, 2)
    \/ SaveModel("c1", "models/risk_classifier.joblib", classified, 2)
    \/ \E c \in ClassifierIds :
          LoadModel(c, "models/risk_classifier.joblib", classified, 2)
    \/ \E c \in ClassifierIds, X \in InferenceInputs :
          PredictOn(c, X, classified, 2)

SpecScenario == InitScenario /\ [][NextScenario]_vars

\* the operation of the latest classifier call, "" before the first
LastOp == IF classified = <<>> THEN "" ELSE classified[1].op

\* A caller that trains c1 (or leaves it untrained), saves it, loads the file
\* into c2 and then asks c1 and c2 the same; classified remembers the latest
\* four calls.
NextRoundTrip ==
    \/ /\ LastOp = ""
       /\ \E set \in TrainSets : Train("c1", set, classified, 4)
    \/ /\ LastOp \in {"", "train"}
       /\ SaveModel("c1", "models/risk_classifier.joblib", classified, 4)
    \/ /\ LastOp = "save_model"
       /\ LoadModel("c2", "models/risk_classifier.joblib", classified, 4)
    \/ /\ LastOp = "load_model"
       /\ \E X \in InferenceInputs :
             \/ PredictOn("c1", X, classified, 4)
             \/ PredictProbaOn("c1", X, classified, 4)
    \/ /\ LastOp = "predict" /\ classified[1].c = "c1"
       /\ PredictOn("c2", classified[1].X, classified, 4)
    \/ /\ LastOp = "predict_proba" /\ classified[1].c = "c1"
       /\ PredictProbaOn("c2", classified[1].X, classified, 4)

SpecRoundTrip == InitClassifier /\ [][NextRoundTrip]_vars

\* X_test, y_test of evaluate
EvaluationSets ==
    {[X |-> ScenarioRows, y |-> ScenarioLabels], [X |-> <<OtherRow>>, y |-> <<1>>]}

\* Every call on c1 in any order; classified remembers the latest three
\* calls.
NextLifecycle ==
    \/ \E set \in ScenarioSets : Train("c1", set, classified, 3)
    \/ \E set \in EvaluationSets : PredictOn("c1", set.X, classified, 3)
    \/ \E set \in EvaluationSets : PredictProbaOn("c1", set.X, classified, 3)
    \/ \E set \in EvaluationSets : Evaluate("c1", set.X, set.y, classified, 3)
    \/ SaveModel("c1", "models/risk_classifier.joblib", classified, 3)
    \/ LoadModel("c1", "models/risk_classifier.joblib", classified, 3)

SpecLifecycle == InitClassify /\ [][NextLifecycle]_vars

\* fit_predict, save and load on either object; fits remembers the latest
\* fit_predict call.
NextPersist ==
    \/ \E i \in InstanceIds, data \in Datasets :
          FitPredictDirect(i, data, fits, 1)
    \/ \E i \in InstanceIds : Save(i)
    \/ \E i \in InstanceIds : Load(i)

SpecPersist == InitRefit /\ [][NextPersist]_vars

SpecRiskPair == InitRisk /\ [][NextRiskPair]_vars

(***************************************************************************)
(* Properties of RiskEngine.calculate_score                                *)
(***************************************************************************)

LateHours == {22, 23, 0, 1, 2, 3, 4}
EveningHours == {18, 19, 20, 21}

\* The part of a call's unrounded score that is neither base, temporal
\* adjustment nor perturbation: the hotspot/historical term.
HotspotTerm(c) == c.score - 10000 - TemporalAdd(c.hour) - c.jitter

\* Squared distance of a call's location from the hotspot centroid.
Dist2(c) ==
    (c.lat - hotspot_model.centroid.lat) * (c.lat - hotspot_model.centroid.lat)
    + (c.lon - hotspot_model.centroid.lon) * (c.lon - hotspot_model.centroid.lon)

\* C1: every returned risk_score lies in [0, 100].
C1_ScoreInRange ==
    last.called => (0 <= last.risk_score /\ last.risk_score <= 10000)

C1_Witness ==
    last.called /\ last.hour = 23 /\ last.jitter = 9999 /\ last.risk_score = 4500

\* C2 as stated: a call at hour 23 returns level "High" or "Moderate",
\* never "Low".
C2_Hour23NeverLow ==
    (last.called /\ last.hour = 23) => last.level \in {"High", "Moderate"}

\* C2 as amended: a call at hour 23 returns "Moderate" when the perturbation
\* exceeds 5 (score above 40) and "Low" otherwise; it never returns "High".
C2_Hour23ModerateOrLow ==
    (last.called /\ last.hour = 23) =>
        /\ last.level \in {"Moderate", "Low"}
        /\ (last.level = "Low") <=> (last.jitter <= 5000)

C2_Witness ==
    last.called /\ last.hour = 23 /\ last.jitter = 5000 /\ last.level = "Low"

\* The body of C3 with the two recorded strings as parameters.
TemporalRuleHolds(lateText, eveningText) ==
    last.called =>
        /\ last.hour \in LateHours =>
              /\ last.score = 10000 + 25000 + last.jitter
              /\ last.contributing_factors = <<lateText>>
        /\ last.hour \in EveningHours =>
              /\ last.score = 10000 + 10000 + last.jitter
              /\ last.contributing_factors = <<eveningText>>
        /\ last.hour \in 5..17 =>
              /\ last.score = 10000 + last.jitter
              /\ last.contributing_factors = <<>>
        /\ last.hour = 2 =>
              last.risk_score >
                  ScoreCall(hotspot_model, last.lat, last.lon, 10,
                            last.rng).risk_score

\* C3 as stated: base 10 plus exactly one temporal rule by hour, recording
\* "High risk: late night hours" / "Moderate risk: evening hours" / nothing;
\* with equal perturbation hour 2 scores strictly above hour 10.
C3_TemporalRuleAsStated ==
    TemporalRuleHolds("High risk: late night hours",
                      "Moderate risk: evening hours")

\* C3 as amended: the same, the recorded entries being
\* "High risk: Late night hours" and "Moderate risk: Evening hours".
C3_TemporalRule ==
    TemporalRuleHolds("High risk: Late night hours",
                      "Moderate risk: Evening hours")

C3_Witness ==
    /\ last.called /\ last.hour = 2 /\ last.jitter = 9996
    /\ last.contributing_factors = <<"High risk: Late night hours">>
    /\ last.risk_score = 4500

\* C4: the level is determined by the returned risk_score: High exactly
\* when risk_score > 75, Moderate exactly when 40 < risk_score <= 75, Low
\* exactly when risk_score <= 40.
C4_LevelFromReturnedScore ==
    last.called =>
        /\ (last.level = "High") <=> (last.risk_score > 7500)
        /\ (last.level = "Moderate") <=>
              (4000 < last.risk_score /\ last.risk_score <= 7500)
        /\ (last.level = "Low") <=> (last.risk_score <= 4000)

\* The returned risk_score less base, temporal adjustment and hotspot term,
\* in hundredths.
ReturnedJitter(c) ==
    c.risk_score
    - (1000 + (TemporalAdd(c.hour) \div 10)
            + (HotspotAdd(hotspot_model, c.lat, c.lon) \div 10))

\* The score before rounding less the same sum, in thousandths.
UnroundedJitter(c) ==
    c.score
    - (10000 + TemporalAdd(c.hour) + HotspotAdd(hotspot_model, c.lat, c.lon))

\* C5 as stated: when the cap does not apply, the returned risk_score minus
\* (10 + temporal adjustment + hotspot term) is >= 0 and < 10.
C5_ReturnedJitterBelowTen ==
    (last.called /\ last.score < ScoreCap) =>
        (0 <= ReturnedJitter(last) /\ ReturnedJitter(last) < 1000)

\* C5 as amended: when the cap does not apply, the score before rounding
\* minus (10 + temporal adjustment + hotspot term) is >= 0 and < 10; the
\* returned risk_score, rounded to two decimals, minus the same sum is
\* >= 0 and <= 10.
C5_JitterBelowTen ==
    (last.called /\ last.score < ScoreCap) =>
        /\ 0 <= UnroundedJitter(last) /\ UnroundedJitter(last) < 10000
        /\ 0 <= ReturnedJitter(last) /\ ReturnedJitter(last) <= 1000

C5_Witness ==
    last.called /\ last.score < ScoreCap /\ ReturnedJitter(last) = 1000

\* C6: two calls with the same latitude, longitude and timestamp (the caller
\* can pass nothing else: calculate_score takes no random source) return the
\* same risk_score, level and contributing_factors.
C6_ReproducibleCalls ==
    (prev.called /\ last.called
        /\ prev.lat = last.lat /\ prev.lon = last.lon /\ prev.hour = last.hour) =>
        /\ prev.risk_score = last.risk_score
        /\ prev.level = last.level
        /\ prev.contributing_factors = last.contributing_factors

\* C7: the hotspot term is zero without a hotspot model; with a fitted model
\* it is larger for the call closer to the centroid (same hour, the
\* perturbation taken out).
C7_HotspotTermByProximity ==
    /\ (last.called /\ hotspot_model.is_none) => HotspotTerm(last) = 0
    /\ (prev.called /\ last.called /\ ~hotspot_model.is_none
            /\ prev.hour = last.hour /\ Dist2(prev) < Dist2(last)) =>
          HotspotTerm(prev) > HotspotTerm(last)

(***************************************************************************)
(* Properties of HotspotClusteringModel                                    *)
(***************************************************************************)

\* C8: after save() on one object and load() on an object with the same
\* model_path, the loading object's algorithm and params are those the
\* saving object had when it saved.
C8_SaveLoadRoundTrip ==
    (outcome.op = "load" /\ outcome.found) =>
        LET inst == instances[outcome.inst]
        IN  /\ inst.model_path \in DOMAIN saved
            /\ inst.algorithm = saved[inst.model_path].algorithm
            /\ inst.params = saved[inst.model_path].params

C8_Witness ==
    /\ outcome.op = "load" /\ outcome.found /\ outcome.inst = "m2"
    /\ saved[instances["m2"].model_path].by = "m1"
    /\ instances["m2"].has_st
    /\ instances["m2"].algorithm = "kmeans"
    /\ instances["m2"].params = [n_clusters |-> 2]

\* The keys the specification requires of params for an algorithm.
RequiredKeys(algorithm) ==
    CASE algorithm = "dbscan" -> {"eps", "min_samples"}
      [] algorithm = "kmeans" -> {"n_clusters"}
      [] algorithm = "st-dbscan" -> {"eps_spatial", "eps_temporal", "min_samples"}
      [] OTHER -> {}

GivenOr(params, key, default) ==
    IF key \in DOMAIN params THEN params[key] ELSE default

ColumnMismatch(algorithm, cols) ==
    CASE algorithm = "dbscan" -> cols # 2
      [] algorithm = "st-dbscan" -> cols # 3
      [] OTHER -> cols \notin {2, 3}

\* C10: fit_predict fails and returns no labels when the input has zero
\* rows or its column count does not match the configured mode.
C10_FitPredictValidates ==
    [][\A i \in InstanceIds, data \in Datasets :
          (/\ FitPredict(i, data)
           /\ \/ Len(data.rows) = 0
              \/ ColumnMismatch(instances[i].algorithm, data.cols))
          => (outcome'.error # "" /\ outcome'.labels = <<>>)]_vars

\* the squared distance of two places is at most eps squared
Dist2WithinEps(p, q, eps) ==
    (p[1] - q[1]) * (p[1] - q[1]) + (p[2] - q[2]) * (p[2] - q[2]) <= eps * eps

\* Rows i and j of a call's array are within eps of each other.
Within(call, i, j) ==
    Dist2WithinEps(call.data.rows[i], call.data.rows[j], call.params.eps)

\* Row i has at least min_samples rows, itself included, within eps.
Dense(call, i) ==
    Cardinality({j \in 1..Len(call.data.rows) : Within(call, i, j)})
        >= call.params.min_samples

\* A row is labelled -1 exactly when it is not dense and within eps of no
\* dense row.
NoiseExactly(call) ==
    \A i \in 1..Len(call.data.rows) :
        call.labels[i] = 0 - 1
            <=> /\ ~Dense(call, i)
                /\ ~\E j \in 1..Len(call.data.rows) :
                       Within(call, i, j) /\ Dense(call, j)

\* The stated example: the first two rows share a cluster, the third is noise.
DbscanExample(call) ==
    (call.data = Points2 /\ call.params = [eps |-> 100, min_samples |-> 2]) =>
        /\ call.labels[1] = call.labels[2]
        /\ call.labels[1] >= 0
        /\ call.labels[3] = 0 - 1

\* a successful dbscan call is the latest
DbscanCalled == fits # <<>> /\ fits[1].algorithm = "dbscan" /\ fits[1].error = ""

\* C11 as stated: in dbscan mode a row is labelled -1 exactly when it has
\* fewer than min_samples rows within eps and is within eps of no row that
\* has min_samples; two rows within eps of each other, at least one of which
\* has min_samples rows within eps, get the same non-negative label.
C11_DbscanLabelsAsStated ==
    DbscanCalled =>
        LET call == fits[1]
        IN  /\ NoiseExactly(call)
            /\ \A i, j \in 1..Len(call.data.rows) :
                  (Within(call, i, j) /\ (Dense(call, i) \/ Dense(call, j))) =>
                      (call.labels[i] = call.labels[j] /\ call.labels[i] >= 0)
            /\ DbscanExample(call)

\* C11 as amended: a row is labelled -1 exactly when it has fewer than
\* min_samples rows within eps and is within eps of no row that has
\* min_samples; two rows within eps of each other that both have
\* min_samples rows within eps get the same non-negative label; a row with
\* fewer that is within eps of such rows gets the label of one of them. The
\* example array is labelled as stated.
C11_DbscanLabels ==
    DbscanCalled =>
        LET call == fits[1]
            n == Len(call.data.rows)
        IN  /\ NoiseExactly(call)
            /\ \A i, j \in 1..n :
                  (Within(call, i, j) /\ Dense(call, i) /\ Dense(call, j)) =>
                      (call.labels[i] = call.labels[j] /\ call.labels[i] >= 0)
            /\ \A i \in 1..n :
                  (~Dense(call, i)
                        /\ \E j \in 1..n : Within(call, i, j) /\ Dense(call, j)) =>
                      \E j \in 1..n : /\ Within(call, i, j)
                                       /\ Dense(call, j)
                                       /\ call.labels[i] = call.labels[j]
                                       /\ call.labels[i] >= 0
            /\ DbscanExample(call)

\* the border row of BorderPoints is labelled with the first cluster though
\* it is within eps of a core sample of the second
C11_Witness ==
    /\ DbscanCalled
    /\ fits[1].data = BorderPoints
    /\ fits[1].params = [eps |-> 100, min_samples |-> 4]
    /\ Within(fits[1], 1, 3) /\ Dense(fits[1], 3) /\ ~Dense(fits[1], 1)
    /\ fits[1].labels[1] = 0
    /\ fits[1].labels[3] = 1

\* the distinct places (first two columns) of the rows of a call's array
\* whose weight is at least w; a two-column array has weight 1 throughout
PlacesOfWeight(call, w) ==
    {<<call.data.rows[i][1], call.data.rows[i][2]>> :
        i \in {j \in 1..Len(call.data.rows) :
                 call.data.cols = 2 \/ call.data.rows[j][3] >= w}}

\* the call returned one label per row, all in 0..k-1, k of them distinct
KLabels(call, k) ==
    /\ call.error = ""
    /\ DOMAIN call.labels = 1..Len(call.data.rows)
    /\ \A i \in 1..Len(call.data.rows) : call.labels[i] \in 0..(k - 1)
    /\ Cardinality({call.labels[i] : i \in 1..Len(call.data.rows)}) = k

\* a kmeans call is the latest
KmeansCalled == fits # <<>> /\ fits[1].algorithm = "kmeans"

StPairCalled ==
    /\ fits # <<>>
    /\ fits[1].algorithm = "st-dbscan"
    /\ fits[1].error = ""
    /\ Len(fits[1].data.rows) = 2
    /\ fits[1].params.min_samples = 2

\* the two rows of a call were taken for neighbours
Neighbours(call) == call.labels = <<0, 0>>

\* sqrt(dlat^2 + dlon^2 + (dt * eps_spatial / eps_temporal)^2) <= eps_spatial
\* for the two rows of a call, squared and multiplied by eps_temporal^2
StFormula(call) ==
    LET p == call.data.rows[1]
        q == call.data.rows[2]
        es == call.params.eps_spatial
        et == call.params.eps_temporal
    IN  ((p[1] - q[1]) * (p[1] - q[1]) + (p[2] - q[2]) * (p[2] - q[2])) * et * et
          + (p[3] - q[3]) * (p[3] - q[3]) * es * es
        <= es * es * et * et

\* the time gap of the two rows of a call
TimeGap(call) ==
    IF call.data.rows[1][3] >= call.data.rows[2][3]
    THEN call.data.rows[1][3] - call.data.rows[2][3]
    ELSE call.data.rows[2][3] - call.data.rows[1][3]

\* the two rows of a call are at one place
SamePlace(call) ==
    /\ call.data.rows[1][1] = call.data.rows[2][1]
    /\ call.data.rows[1][2] = call.data.rows[2][2]

\* C13: in st-dbscan mode two points are neighbours exactly when
\* sqrt(dlat^2 + dlon^2 + (dt * eps_spatial / eps_temporal)^2) <= eps_spatial;
\* two points at the same place whose time gap is eps_temporal are
\* neighbours, and a time gap larger than eps_temporal makes two points
\* non-neighbours.
C13_StNeighbours ==
    StPairCalled =>
        /\ Neighbours(fits[1]) <=> StFormula(fits[1])
        /\ (SamePlace(fits[1])
               /\ TimeGap(fits[1]) = fits[1].params.eps_temporal)
             => Neighbours(fits[1])
        /\ TimeGap(fits[1]) > fits[1].params.eps_temporal
             => ~Neighbours(fits[1])

\* C14: fit_predict on the same ordered input with the same parameters
\* returns the same labels (or raises the same error) at every call, on one
\* object after calls on other inputs and on another object constructed
\* alike: the result depends only on the input and the parameters.
C14_SameInputSameLabels ==
    \A a, b \in 1..Len(fits) :
        (/\ fits[a].algorithm = fits[b].algorithm
         /\ fits[a].params = fits[b].params
         /\ fits[a].data = fits[b].data)
        => (fits[a].error = fits[b].error /\ fits[a].labels = fits[b].labels)

\* kmeans labelled the same array in two calls on m1, both times alike
C14_Witness ==
    /\ Len(fits) = 2
    /\ fits[1].inst = "m1" /\ fits[2].inst = "m1"
    /\ fits[1].algorithm = "kmeans"
    /\ fits[1].data = Points2 /\ fits[2].data = Points2
    /\ fits[1].error = "" /\ fits[1].labels = fits[2].labels
    /\ outcome.op = "fit" /\ outcome.labels = fits[1].labels

\* C15: fit_predict does not write the file at model_path and leaves the
\* object's algorithm and params and the caller's array as they were; the
\* file is written by save() only.
C15_FitPredictFrame ==
    /\ [][outcome'.op = "fit" =>
            /\ fs' = fs
            /\ \A i \in InstanceIds :
                  /\ instances'[i].algorithm = instances[i].algorithm
                  /\ instances'[i].params = instances[i].params
                  /\ instances'[i].model_path = instances[i].model_path
            /\ fits'[1].after = fits'[1].data]_vars
    /\ [][fs' # fs => outcome'.op = "save"]_vars

\* st-dbscan was fitted on a three-column array after the object was saved:
\* the file still holds the estimator as saved, the array is as passed
C15_Witness ==
    /\ outcome.op = "fit" /\ outcome.error = "" /\ outcome.inst = "m1"
    /\ fits[1].algorithm = "st-dbscan"
    /\ fits[1].data = Points3
    /\ fits[1].after = Points3
    /\ instances["m1"].model.fitted
    /\ instances["m1"].model_path \in DOMAIN fs
    /\ ~fs[instances["m1"].model_path].model.fitted

\* C16: after save() calls made one after another to one model_path, a
\* later load() leaves the loading object with the algorithm, the params and
\* the fitted model of the save completed last, all three of that one save.
C16_LoadYieldsLastSave ==
    (outcome.op = "load" /\ outcome.found) =>
        LET inst == instances[outcome.inst]
            written == saved[inst.model_path]
        IN  Metadata(inst) =
                [algorithm |-> written.algorithm, params |-> written.params,
                 model |-> written.model]

\* m1, constructed as st-dbscan, loaded what m2 saved last: a fitted kmeans
\* estimator with its algorithm and params
C16_Witness ==
    /\ outcome.op = "load" /\ outcome.found /\ outcome.inst = "m1"
    /\ saved[instances["m1"].model_path].by = "m2"
    /\ instances["m1"].has_st
    /\ instances["m1"].algorithm = "kmeans"
    /\ instances["m1"].params = [n_clusters |-> 2]
    /\ instances["m1"].model.kind = "KMeans"
    /\ instances["m1"].model.fitted
    /\ instances["m2"].algorithm = "kmeans"

\* C17: with no save in progress, however the load() calls of several
\* readers of one path interleave, each reader whose load() is over holds
\* the algorithm, params and model of the file, and no step changes the file.
C17_ReadersHoldPersisted ==
    /\ [](\A i \in InstanceIds :
            (readers[i].pc = "done" /\ readers[i].found) =>
                Metadata(instances[i]) = fs[instances[i].model_path])
    /\ [][fs' = fs]_vars

\* m1 has finished its load() while that of m2 has assigned algorithm and
\* params of the file and not yet the model
C17_Witness ==
    /\ readers["m1"].pc = "done" /\ readers["m1"].found
    /\ readers["m2"].pc = "model"
    /\ fs[instances["m1"].model_path].algorithm = "kmeans"
    /\ Metadata(instances["m1"]) = fs[instances["m1"].model_path]
    /\ instances["m1"].has_st
    /\ instances["m2"].algorithm = "kmeans"
    /\ instances["m2"].model.kind = "DBSCAN"

\* C18: restoring from a path where no model file exists reports an error to
\* the caller, for the cluster model's load(), the anomaly model's load()
\* and the risk classifier's load_model() alike.
C18_MissingFileIsReported ==
    /\ (outcome.op = "load" /\ ~outcome.found) => outcome.error # ""
    /\ (detections # <<>> /\ detections[1].op = "load" /\ ~detections[1].found)
          => detections[1].error # ""
    /\ (classified # <<>> /\ classified[1].op = "load_model"
            /\ classified[1].filepath \notin DOMAIN classifier_fs)
          => classified[1].error # ""

\* the number of rows a call labelled -1
Flagged(call) ==
    Cardinality({i \in 1..Len(call.batch) : call.labels[i] = 0 - 1})

\* a successful fit_predict call of the detector is the latest: it returned
\* one label per row, each 1 or -1
FitPredictLabelled ==
    /\ detections # <<>>
    /\ detections[1].op = "fit_predict"
    /\ detections[1].error = ""

OneLabelPerRow(call) ==
    /\ DOMAIN call.labels = 1..Len(call.batch)
    /\ \A i \in 1..Len(call.batch) : call.labels[i] \in {1, 0 - 1}

\* C19 as stated: fit_predict with contamination c on n rows returns one
\* label per row, each 1 or -1, and labels at most c * n rows -1.
C19_FlaggedAtMostShare ==
    FitPredictLabelled =>
        /\ OneLabelPerRow(detections[1])
        /\ 100 * Flagged(detections[1])
              <= detector.model.contamination * Len(detections[1].batch)

\* C19 as amended: fit_predict with contamination c on n rows returns one
\* label per row, each 1 or -1, and labels at most c * (n - 1) rows,
\* rounded up to a whole number, -1.
C19_FlaggedAtMostRoundedShare ==
    FitPredictLabelled =>
        /\ OneLabelPerRow(detections[1])
        /\ Flagged(detections[1])
              <= (detector.model.contamination * (Len(detections[1].batch) - 1)
                    + 99) \div 100

\* at the default contamination, one of three rows is labelled -1
C19_Witness ==
    /\ FitPredictLabelled
    /\ detector.model.contamination = 5
    /\ detections[1].batch = << <<0, 0, 1>>, <<1, 0, 1>>, <<9, 9, 5>> >>
    /\ detections[1].labels = <<1, 1, 0 - 1>>

\* what the caller of a detector call gets back
Returned(call) ==
    [error |-> call.error, labels |-> call.labels, scores |-> call.scores]

\* C20: the result of fit_predict(batch) and of get_anomaly_scores(batch)
\* depends only on the batch, not on the batches of earlier calls on the same
\* detector, and both succeed on a detector never fitted or loaded before:
\* two remembered calls of one operation on one batch returned the same, and
\* no remembered call on a batch with rows failed.
C20_ResultDependsOnBatchOnly ==
    /\ \A i, j \in 1..Len(detections) :
           (/\ detections[i].op = detections[j].op
            /\ detections[i].batch = detections[j].batch)
               => Returned(detections[i]) = Returned(detections[j])
    /\ \A i \in 1..Len(detections) : detections[i].error = ""

\* C21: anomaly detection on an empty batch fails with a validation error
\* instead of returning a result, in AnomalyDetector.fit_predict and in the
\* detect_anomalies entry point.
C21_EmptyBatchFails ==
    /\ \A i \in 1..Len(detections) :
           (detections[i].op = "fit_predict" /\ detections[i].batch = <<>>)
               => detections[i].error # ""
    /\ (response.view = "detect_anomalies" /\ response.query = <<>>)
           => response.error # ""

\* the handler answered a posted list, and the detector's latest call is the
\* one the handler made on that list's three columns
Detected ==
    /\ response.view = "detect_anomalies"
    /\ response.error = ""
    /\ response.query # <<>>
    /\ detections # <<>>
    /\ detections[1].op = "fit_predict"
    /\ detections[1].batch = Features(response.query)

\* the positions the detector labelled -1
FlaggedAt == {i \in 1..Len(detections[1].batch) : detections[1].labels[i] = 0 - 1}

\* the k-th of them, from the front of the list
KthFlagged(k) ==
    CHOOSE i \in FlaggedAt : Cardinality({j \in FlaggedAt : j < i}) = k - 1

\* C22: detect_anomalies(records) returns exactly the input records the
\* detector labels -1, unmodified and in their input order: as many as are
\* labelled -1, the k-th returned record being the k-th such input record.
C22_EchoesFlaggedRecords ==
    Detected =>
        /\ Len(response.body) = Cardinality(FlaggedAt)
        /\ \A k \in 1..Len(response.body) :
               response.body[k] = response.query[KthFlagged(k)]

\* two records far from a crowd, posted first and last, come back in that
\* order with the column the handler does not read
C22_Witness ==
    /\ Detected
    /\ Len(response.query) = CrowdSize
    /\ Len(response.body) = 2
    /\ response.body[1] = response.query[1]
    /\ response.body[2] = response.query[CrowdSize]
    /\ response.body[1].crime_type = "Fraud"
    /\ response.body[2].crime_type = "Assault"

\* the latest two classifier calls are predict and predict_proba, in either
\* order, of one classifier on one input, and both returned
BothInferred ==
    /\ Len(classified) >= 2
    /\ {classified[1].op, classified[2].op} = {"predict", "predict_proba"}
    /\ classified[1].c = classified[2].c
    /\ classified[1].X = classified[2].X
    /\ classified[1].error = "" /\ classified[2].error = ""

\* of the latest two calls, what predict returned and what predict_proba did
Labels == IF classified[1].op = "predict" THEN classified[1].output ELSE classified[2].output
Probabilities == IF classified[1].op = "predict" THEN classified[2].output ELSE classified[1].output

\* the probabilities of one row lie in [0,1] and sum to 1 (in percent)
Distribution(p) ==
    /\ \A j \in 1..Len(p) : p[j] >= 0 /\ p[j] <= 100
    /\ (Len(p) = 1 /\ p[1] = 100) \/ (Len(p) = 2 /\ p[1] + p[2] = 100)

\* C23: for every input row of a trained classifier, predict_proba returns
\* class probabilities in [0,1] that sum to 1, and predict returns the class
\* whose probability is the larger one (of equal ones the first, as argmax).
C23_PredictIsArgmaxOfProba ==
    /\ \A k \in 1..Len(classified) :
           (classified[k].op = "predict_proba" /\ classified[k].error = "")
               => /\ Len(classified[k].output) = Len(classified[k].X)
                  /\ \A i \in 1..Len(classified[k].X) :
                         Distribution(classified[k].output[i])
    /\ BothInferred =>
           /\ Len(Labels) = Len(classified[1].X)
           /\ \A i \in 1..Len(Labels) :
                  Len(Probabilities[i]) = 2 =>
                      /\ Labels[i] \in {0, 1}
                      /\ Labels[i] = 1 <=> Probabilities[i][2] > Probabilities[i][1]

\* a forest trained on both classes gave the two rows unequal probabilities
\* and the class of the larger one
C23_Witness ==
    /\ BothInferred
    /\ classifier[classified[1].c].model.kind = "random_forest"
    /\ classified[1].X = ScenarioRows
    /\ Probabilities = << <<45, 55>>, <<45, 55>> >>
    /\ Labels = <<1, 1>>

\* a classifier loaded the file of a forest trained on the scenario's rows
\* against labels [1,0], and then predicted on those rows
ScenarioReplayed ==
    /\ Len(classified) >= 2
    /\ classified[2].op = "load_model" /\ classified[2].error = ""
    /\ classifier_fs[classified[2].filepath].kind = "random_forest"
    /\ classifier_fs[classified[2].filepath].trained
    /\ classifier_fs[classified[2].filepath].X = ScenarioRows
    /\ classifier_fs[classified[2].filepath].y = ScenarioLabels
    /\ classified[1].op = "predict" /\ classified[1].c = classified[2].c
    /\ classified[1].X = ScenarioRows

\* C24: a random-forest classifier trained on the two rows
\* [[28.70,77.10,22,2,1],[19.07,72.87,14,3,6]] with labels [1,0], then saved
\* and loaded, predicts [1,0] on those same two rows.
C24_ScenarioLabelsReproduced ==
    ScenarioReplayed =>
        /\ classified[1].error = ""
        /\ classified[1].output = ScenarioLabels

\* of the latest four calls, the oldest saved one classifier, the next loaded
\* that file into another, and the latest two asked the saver and then the
\* loader the same
RoundTripAsked ==
    /\ Len(classified) = 4
    /\ classified[4].op = "save_model"
    /\ classified[3].op = "load_model" /\ classified[3].error = ""
    /\ classified[3].filepath = classified[4].filepath
    /\ classified[3].c # classified[4].c
    /\ classified[2].c = classified[4].c
    /\ classified[1].c = classified[3].c
    /\ classified[2].op \in {"predict", "predict_proba"}
    /\ classified[1].op = classified[2].op
    /\ classified[1].X = classified[2].X

\* C25: save_model followed by load_model into another CrimeRiskClassifier
\* round-trips exactly: predict and predict_proba of the restored classifier
\* equal those of the saving classifier on every input, whatever model_type
\* the loading classifier was constructed with.
C25_SaveLoadModelRoundTrip ==
    RoundTripAsked =>
        /\ classified[1].error = classified[2].error
        /\ classified[1].output = classified[2].output

\* a classifier built as a logistic model returns the probabilities of the
\* trained forest it loaded
C25_Witness ==
    /\ RoundTripAsked
    /\ classifier[classified[1].c].model_type = "logistic"
    /\ classifier[classified[2].c].model_type = "random_forest"
    /\ classified[1].op = "predict_proba"
    /\ classified[1].error = ""
    /\ classified[1].output = << <<45, 55>>, <<45, 55>> >>

InferenceOps == {"predict", "predict_proba", "evaluate"}

\* remembered calls i (later) and j (earlier) asked one classifier the same
SameQuestion(i, j) ==
    /\ classified[i].op \in InferenceOps
    /\ classified[i].op = classified[j].op
    /\ classified[i].c = classified[j].c
    /\ classified[i].X = classified[j].X
    /\ classified[i].y = classified[j].y

SameAnswer(i, j) ==
    /\ classified[i].error = classified[j].error
    /\ classified[i].output = classified[j].output

\* a step that is an inference call leaves every classifier's fitted model
\* and feature_importance, and the files, as they were
InferenceReadsOnly ==
    (classified' # <<>> /\ classified'[1].op \in InferenceOps)
        => (classifier' = classifier /\ classifier_fs' = classifier_fs)

\* C26 as stated: the classifier's state is mutated only by train; predict,
\* predict_proba and evaluate leave the fitted model and feature_importance
\* unchanged, so every inference call made between two consecutive train
\* calls returns the same output for the same input.
C26_OnlyTrainMutates ==
    /\ [](\A i, j \in 1..Len(classified) :
            (/\ i < j
             /\ SameQuestion(i, j)
             /\ \A k \in (i + 1)..(j - 1) :
                    ~(classified[k].op = "train" /\ classified[k].c = classified[i].c))
                => SameAnswer(i, j))
    /\ [][InferenceReadsOnly]_vars

\* C26 as amended: the state is mutated only by train and load_model, and
\* every inference call made between two consecutive train or load_model
\* calls returns the same output for the same input.
C26_OnlyTrainAndLoadMutate ==
    /\ [](\A i, j \in 1..Len(classified) :
            (/\ i < j
             /\ SameQuestion(i, j)
             /\ \A k \in (i + 1)..(j - 1) :
                    ~(classified[k].op \in {"train", "load_model"}
                        /\ classified[k].c = classified[i].c))
                => SameAnswer(i, j))
    /\ [][InferenceReadsOnly]_vars

\* two predict calls with an evaluate call between them returned the same
\* labels from a trained classifier
C26_Witness ==
    /\ Len(classified) = 3
    /\ classified[1].op = "predict" /\ classified[3].op = "predict"
    /\ classified[2].op = "evaluate"
    /\ classified[1].X = ScenarioRows /\ classified[3].X = ScenarioRows
    /\ classified[1].error = ""
    /\ classified[1].output = classified[3].output
    /\ ~classifier["c1"].feature_importance.is_none

\* m2 loaded the file m1 saved, and fit_predict was called on m1 and then on
\* m2 with the same array
RestoredAsked ==
    /\ Len(fits) = 2
    /\ fits[2].inst = "m1" /\ fits[1].inst = "m2"
    /\ fits[1].data = fits[2].data
    /\ instances["m2"].model_path \in DOMAIN saved
    /\ saved[instances["m2"].model_path].by = "m1"

\* C27: after load() the instance is the saved variant as one unit:
\* fit_predict on it runs the saved algorithm with the saved parameters and
\* returns the same labels as the saving instance for the same input,
\* whatever algorithm and params the loading instance was constructed with.
C27_RestoredFitsAsSaved ==
    RestoredAsked =>
        /\ fits[1].algorithm = fits[2].algorithm
        /\ fits[1].params = fits[2].params
        /\ fits[1].error = fits[2].error
        /\ fits[1].labels = fits[2].labels

\* the latest operation was a load() that found no file at its model_path
LoadFoundNothing ==
    /\ outcome.op = "load"
    /\ ~outcome.found
    /\ outcome.error = ""

\* a step that is a load() finding no file leaves every object's algorithm,
\* params and model, the files and the directories as they were
MissingLoadChangesNothing ==
    (outcome'.op = "load" /\ ~outcome'.found)
        => (instances' = instances /\ fs' = fs /\ dirs' = dirs)

\* C28: load() on a model_path where no file exists leaves algorithm, params
\* and model as they were, creates no file, and the instance remains usable
\* for fit_predict in its constructed state: what fit_predict reads of it is
\* what the constructor made from its algorithm and params.
C28_MissingLoadLeavesConstructed ==
    /\ [](LoadFoundNothing =>
            LET inst == instances[outcome.inst]
            IN  /\ inst.model_path \notin DOMAIN fs
                /\ FitKey(inst) =
                      FitKey(Constructed(inst.algorithm, inst.params,
                                         inst.model_path)))
    /\ [][MissingLoadChangesNothing]_vars

\* load() found nothing for a kmeans object that fit_predict had fitted
C28_Witness ==
    /\ LoadFoundNothing
    /\ instances[outcome.inst].algorithm = "kmeans"
    /\ instances[outcome.inst].params = KmeansParams
    /\ instances[outcome.inst].model.fitted
    /\ fs = <<>>

\* the clustered-data file was missing at import
MissingFile == clustered_data = DataFrame

\* the last request went to a view that reads the clustered data
ViewAnswered == response.view \in {"hotspots", "heatmap-data", "analytics"}

\* the view returned its empty result and raised nothing
EmptyResult ==
    /\ response.error = ""
    /\ response.view = "hotspots" => response.body.clusters = <<>>
    /\ response.view = "heatmap-data" => response.body = <<>>
    /\ response.view = "analytics" =>
           /\ response.body.hourly_trends = <<>>
           /\ response.body.crime_types = <<>>
           /\ response.body.daily_trends = <<>>

\* C29: when the clustered-data file is missing, every view that reads it
\* (hotspots, heatmap-data, analytics) returns an empty result and does not
\* fail, for every combination of query parameters, lat and lon included.
C29_MissingFileDegradesToEmpty ==
    (MissingFile /\ ViewAnswered) => EmptyResult

====
